---- MODULE Spec2Model ----
(***************************************************************************)
(* Snailfish numbers (src/src/day18.rs): the tree, its parser, the         *)
(* explode/split reducer, the magnitude and the batch sum.                 *)
(***************************************************************************)
EXTENDS Integers, Sequences, FiniteSets, TLC

VARIABLES
    tree,      \* the SnailNumber make_regular works on (self)
    orig,      \* the value of self when make_regular was called
    before,    \* the value of self at the start of the last loop iteration
    rewrite,   \* what the last loop iteration did: "none", "explode", "split"
    pc,        \* position of make_regular: "loop", "done" (returned), "panic";
               \* "raw" when magnitude() was taken of a tree never reduced
    mag,       \* result of magnitude(), NoValue until it was called
    line,      \* the text handed to from_str, a sequence of characters
    parsed,    \* what from_str returned, NoValue until it was called
    shown,     \* what to_string() returned, NoValue until it was called
    input,     \* the text handed to sum_lines, a sequence of lines
    taken,     \* how many lines the iterator of sum_lines has yielded
    acc,       \* the accumulator of Iterator::reduce, a Result
    result,    \* what sum_lines returned, NoValue until it did
    sumpc,     \* position of sum_lines: "start", "fold", "returned", "panic"
    lhs,       \* self when add() was called, NoValue until it was
    rhs,       \* the argument of add()
    batch,     \* the text handed to part_2, a sequence of lines
    numbers,   \* the Vec of parsed lines that the tasks of part_2 share
    evaluated, \* the pairs the inner closure has run for, with their values
    rows,      \* per left index: the inner max() so far, and whether the
               \* outer max() has taken it
    best,      \* the outer max() so far, an Option
    answer,    \* what part_2 returned, NoValue until it did
    maxpc      \* position of part_2: "start", "search", "returned", "panic"

reducerVars == <<tree, orig, before, rewrite, pc, mag>>

parserVars == <<line, parsed, shown>>

sumVars == <<input, taken, acc, result, sumpc>>

addVars == <<lhs, rhs>>

maxVars == <<batch, numbers, evaluated, rows, best, answer, maxpc>>

vars == <<reducerVars, parserVars, sumVars, addVars, maxVars>>

NoValue == [kind |-> "NoValue"]

\* add() was not called
IdleAdd == lhs = NoValue /\ rhs = NoValue

\* part_2 was not called
IdleMax ==
    /\ batch = <<>>
    /\ numbers = <<>>
    /\ evaluated = {}
    /\ rows = <<>>
    /\ best = NoValue
    /\ answer = NoValue
    /\ maxpc = "idle"

\* ---------------------------------------------------------------- bounds
MaxLeaves == 6

\* leaf values the bounded input trees are drawn from
Vals == {1, 11}

\* ------------------------------------------------------------ SnailNumber
Regular(n) == [kind |-> "Regular", v |-> n]

Pair(l, r) == [kind |-> "Pair", left |-> l, right |-> r]

IsRegular(t) == t.kind = "Regular"

IsPair(t) == t.kind = "Pair"

\* ------------------------------------------------------ ExplosionProcess
None == [kind |-> "None"]

ChildExploded(l, r) == [kind |-> "ChildExploded", l |-> l, r |-> r]

Shockwave(w, n) == [kind |-> "Shockwave", wave |-> w, v |-> n]

Handled == [kind |-> "Handled"]

\* unreachable!(...): the thread panics, nothing is returned
Unreachable == [kind |-> "Unreachable"]

IsWave(sig, w) == sig.kind = "Shockwave" /\ sig.wave = w

\* ------------------------------------------------------- carry delivery
RECURSIVE add_to_leftmost_regular(_, _)
add_to_leftmost_regular(self, value) ==
    IF IsRegular(self)
    THEN Regular(self.v + value)
    ELSE Pair(add_to_leftmost_regular(self.left, value), self.right)

RECURSIVE add_to_rightmost_regular(_, _)
add_to_rightmost_regular(self, value) ==
    IF IsRegular(self)
    THEN Regular(self.v + value)
    ELSE Pair(self.left, add_to_rightmost_regular(self.right, value))

\* ------------------------------------------------------------- explode
\* a Pair that holds a Pair is passed over, with no signal
ExplodeHerePassesOver(self) ==
    IF IsRegular(self.left) /\ IsRegular(self.right)
    THEN [sig |-> ChildExploded(self.left.v, self.right.v), tree |-> Regular(0)]
    ELSE [sig |-> None, tree |-> self]

\* The depth >= 4 arm of try_explode: a Pair here explodes, or panics when
\* one of its children is itself a Pair.
ExplodeHere(self) ==
    IF IsRegular(self.left) /\ IsRegular(self.right)
    THEN [sig |-> ChildExploded(self.left.v, self.right.v), tree |-> Regular(0)]
    ELSE [sig |-> Unreachable, tree |-> self]

\* FromLeft with a right carry that, once added to the right sibling, is
\* handed on upward as if it were still to be delivered
FromLeftCarriesOn(le, right) ==
    CASE le.sig.kind = "ChildExploded" ->
            [sig  |-> Shockwave("LeftThenRightMost", le.sig.l),
             tree |-> Pair(le.tree, add_to_leftmost_regular(right, le.sig.r))]
      [] IsWave(le.sig, "RightThenLeftMost") ->
            [sig  |-> le.sig,
             tree |-> Pair(le.tree, add_to_leftmost_regular(right, le.sig.v))]
      [] IsWave(le.sig, "RightMost") ->
            [sig  |-> Handled,
             tree |-> Pair(le.tree, add_to_rightmost_regular(right, le.sig.v))]
      [] OTHER ->
            [sig |-> le.sig, tree |-> Pair(le.tree, right)]

\* FromLeft handing the ChildExploded of its left child on to its own
\* caller, nothing delivered
FromLeftHandsOn(le, right) ==
    CASE le.sig.kind = "ChildExploded" ->
            [sig |-> le.sig, tree |-> Pair(le.tree, right)]
      [] IsWave(le.sig, "RightThenLeftMost") ->
            [sig  |-> Handled,
             tree |-> Pair(le.tree, add_to_leftmost_regular(right, le.sig.v))]
      [] IsWave(le.sig, "RightMost") ->
            [sig  |-> Handled,
             tree |-> Pair(le.tree, add_to_rightmost_regular(right, le.sig.v))]
      [] OTHER ->
            [sig |-> le.sig, tree |-> Pair(le.tree, right)]

\* What a Pair does with the signal its left child returned.
FromLeft(le, right) ==
    CASE le.sig.kind = "ChildExploded" ->
            [sig  |-> Shockwave("LeftThenRightMost", le.sig.l),
             tree |-> Pair(le.tree, add_to_leftmost_regular(right, le.sig.r))]
      [] IsWave(le.sig, "RightThenLeftMost") ->
            [sig  |-> Handled,
             tree |-> Pair(le.tree, add_to_leftmost_regular(right, le.sig.v))]
      [] IsWave(le.sig, "RightMost") ->
            [sig  |-> Handled,
             tree |-> Pair(le.tree, add_to_rightmost_regular(right, le.sig.v))]
      [] OTHER ->
            [sig |-> le.sig, tree |-> Pair(le.tree, right)]

\* FromRight with a left carry that comes up from the right child put into
\* the leftmost leaf of the left sibling instead of the rightmost
FromRightIntoLeftmost(left, ri) ==
    CASE ri.sig.kind = "ChildExploded" ->
            [sig  |-> Shockwave("RightThenLeftMost", ri.sig.r),
             tree |-> Pair(add_to_rightmost_regular(left, ri.sig.l), ri.tree)]
      [] IsWave(ri.sig, "LeftThenRightMost") ->
            [sig  |-> Handled,
             tree |-> Pair(add_to_leftmost_regular(left, ri.sig.v), ri.tree)]
      [] IsWave(ri.sig, "LeftMost") ->
            [sig  |-> Handled,
             tree |-> Pair(add_to_leftmost_regular(left, ri.sig.v), ri.tree)]
      [] OTHER ->
            [sig |-> ri.sig, tree |-> Pair(left, ri.tree)]

\* FromRight with the left value of an exploded right child dropped, not
\* added to the left sibling
FromRightDropsCarry(left, ri) ==
    CASE ri.sig.kind = "ChildExploded" ->
            [sig  |-> Shockwave("RightThenLeftMost", ri.sig.r),
             tree |-> Pair(left, ri.tree)]
      [] IsWave(ri.sig, "LeftThenRightMost") ->
            [sig  |-> Handled,
             tree |-> Pair(add_to_rightmost_regular(left, ri.sig.v), ri.tree)]
      [] IsWave(ri.sig, "LeftMost") ->
            [sig  |-> Handled,
             tree |-> Pair(add_to_leftmost_regular(left, ri.sig.v), ri.tree)]
      [] OTHER ->
            [sig |-> ri.sig, tree |-> Pair(left, ri.tree)]

\* What a Pair does with the signal its right child returned.
FromRight(left, ri) ==
    CASE ri.sig.kind = "ChildExploded" ->
            [sig  |-> Shockwave("RightThenLeftMost", ri.sig.r),
             tree |-> Pair(add_to_rightmost_regular(left, ri.sig.l), ri.tree)]
      [] IsWave(ri.sig, "LeftThenRightMost") ->
            [sig  |-> Handled,
             tree |-> Pair(add_to_rightmost_regular(left, ri.sig.v), ri.tree)]
      [] IsWave(ri.sig, "LeftMost") ->
            [sig  |-> Handled,
             tree |-> Pair(add_to_leftmost_regular(left, ri.sig.v), ri.tree)]
      [] OTHER ->
            [sig |-> ri.sig, tree |-> Pair(left, ri.tree)]

\* the test `depth >= 4` that opens try_explode
TooDeepOffByOne(depth) == depth >= 5

TooDeep(depth) == depth >= 4

RECURSIVE try_explode(_, _)
try_explode(self, depth) ==
    IF TooDeep(depth) /\ IsPair(self)
    THEN ExplodeHere(self)
    ELSE IF IsRegular(self)
    THEN [sig |-> None, tree |-> self]
    ELSE LET le == try_explode(self.left, depth + 1) IN
         IF le.sig # None
         THEN FromLeft(le, self.right)
         ELSE LET ri == try_explode(self.right, depth + 1) IN
              IF ri.sig # None
              THEN FromRight(self.left, ri)
              ELSE [sig |-> None, tree |-> self]

\* --------------------------------------------------------------- split
\* the test `*val > 9` of try_split
MustSplitAbove11(val) == val > 11

\* the test taken for `*val >= 9`
MustSplitFromNine(val) == val >= 9

MustSplit(val) == val > 9

\* halved = val / 2, is_odd = val % 2 (val is never negative where MustSplit holds)
SplitValueFloorTwice(val) == Pair(Regular(val \div 2), Regular(val \div 2))

SplitValue(val) == Pair(Regular(val \div 2), Regular((val \div 2) + (val % 2)))

RECURSIVE try_split(_)
try_split(self) ==
    IF IsRegular(self)
    THEN IF MustSplit(self.v)
         THEN [done |-> TRUE, tree |-> SplitValue(self.v)]
         ELSE [done |-> FALSE, tree |-> self]
    ELSE LET le == try_split(self.left) IN
         IF le.done
         THEN [done |-> TRUE, tree |-> Pair(le.tree, self.right)]
         ELSE LET ri == try_split(self.right) IN
              [done |-> ri.done, tree |-> Pair(self.left, ri.tree)]

\* ----------------------------------------------------------- magnitude
\* the Pair arm of magnitude, given the magnitudes of the two children
PairMagnitudeSwapped(l, r) == (2 * l) + (3 * r)

PairMagnitude(l, r) == (3 * l) + (2 * r)

RECURSIVE magnitude(_)
magnitude(self) ==
    IF IsRegular(self)
    THEN self.v
    ELSE PairMagnitude(magnitude(self.left), magnitude(self.right))

\* ------------------------------------------------------------- addition
\* the operands change places
add_swapped(self, other) == Pair(other, self)

add(self, other) == Pair(self, other)

\* -------------------------------------------------------- make_regular
\* make_regular with the split tried before the explode
LoopIterationSplitFirst(self) ==
    LET sp == try_split(self)
        ex == try_explode(self, 0) IN
    CASE sp.done ->
            [next |-> "loop", rewrite |-> "split", tree |-> sp.tree]
      [] ex.sig.kind = "Unreachable" \/ ex.sig.kind = "ChildExploded" ->
            [next |-> "panic", rewrite |-> "none", tree |-> self]
      [] ex.sig.kind = "Shockwave" \/ ex.sig.kind = "Handled" ->
            [next |-> "loop", rewrite |-> "explode", tree |-> ex.tree]
      [] OTHER ->
            [next |-> "done", rewrite |-> "none", tree |-> self]

\* make_regular taking a Shockwave that reaches the root for an error
LoopIterationWaveAtRootPanics(self) ==
    LET ex == try_explode(self, 0) IN
    CASE ex.sig.kind \in {"Unreachable", "ChildExploded", "Shockwave"} ->
            [next |-> "panic", rewrite |-> "none", tree |-> self]
      [] ex.sig.kind = "Handled" ->
            [next |-> "loop", rewrite |-> "explode", tree |-> ex.tree]
      [] OTHER ->
            LET sp == try_split(self) IN
            IF sp.done
            THEN [next |-> "loop", rewrite |-> "split", tree |-> sp.tree]
            ELSE [next |-> "done", rewrite |-> "none", tree |-> self]

\* make_regular with a call of try_explode that goes on to the next Pair at
\* depth 4 after it has replaced one
LoopIterationExplodesOn(self) ==
    LET ex == try_explode(self, 0)
        on == try_explode(ex.tree, 0) IN
    CASE ex.sig.kind = "Unreachable" \/ ex.sig.kind = "ChildExploded" ->
            [next |-> "panic", rewrite |-> "none", tree |-> self]
      [] ex.sig.kind = "Shockwave" \/ ex.sig.kind = "Handled" ->
            [next |-> "loop", rewrite |-> "explode",
             tree |-> IF on.sig.kind \in {"Shockwave", "Handled"} THEN on.tree ELSE ex.tree]
      [] OTHER ->
            LET sp == try_split(self) IN
            IF sp.done
            THEN [next |-> "loop", rewrite |-> "split", tree |-> sp.tree]
            ELSE [next |-> "done", rewrite |-> "none", tree |-> self]

\* One iteration of the loop of make_regular: what it does to self and
\* where control goes next.
LoopIteration(self) ==
    LET ex == try_explode(self, 0) IN
    CASE ex.sig.kind = "Unreachable" \/ ex.sig.kind = "ChildExploded" ->
            [next |-> "panic", rewrite |-> "none", tree |-> self]
      [] ex.sig.kind = "Shockwave" \/ ex.sig.kind = "Handled" ->
            [next |-> "loop", rewrite |-> "explode", tree |-> ex.tree]
      [] OTHER ->
            LET sp == try_split(self) IN
            IF sp.done
            THEN [next |-> "loop", rewrite |-> "split", tree |-> sp.tree]
            ELSE [next |-> "done", rewrite |-> "none", tree |-> self]

\* make_regular run to its end: the final tree, or Unreachable on a panic.
RECURSIVE make_regular(_)
make_regular(self) ==
    LET it == LoopIteration(self) IN
    CASE it.next = "loop" -> make_regular(it.tree)
      [] it.next = "done" -> it.tree
      [] OTHER -> Unreachable

\* ------------------------------------------------------ bounded inputs
\* The shapes of the trees with n leaves (every leaf Regular(0)).
RECURSIVE ShapesWith(_)
ShapesWith(n) ==
    IF n = 1
    THEN {Regular(0)}
    ELSE UNION {{Pair(l, r) : l \in ShapesWith(k), r \in ShapesWith(n - k)} :
                k \in 1..(n - 1)}

Shapes == UNION {ShapesWith(n) : n \in 1..MaxLeaves}

RECURSIVE LeafCount(_)
LeafCount(t) == IF IsRegular(t) THEN 1 ELSE LeafCount(t.left) + LeafCount(t.right)

\* The tree of shape s whose leaves hold, left to right, f[from + 1], f[from + 2], ...
RECURSIVE Fill(_, _, _)
Fill(s, f, from) ==
    IF IsRegular(s)
    THEN Regular(f[from + 1])
    ELSE Pair(Fill(s.left, f, from), Fill(s.right, f, from + LeafCount(s.left)))

\* regularize("[[[[[9,8],1],2],3],4]"), the explode example of test_part_1
ExplodeExample ==
    Pair(Pair(Pair(Pair(Pair(Regular(9), Regular(8)), Regular(1)), Regular(2)),
              Regular(3)), Regular(4))

\* the two splits of the specification's examples: 10 and 11
SplitExample == Pair(Regular(10), Regular(11))

TestTrees == {ExplodeExample, SplitExample}

\* Shapes with seven leaves and Pairs at depth 4 and 5 (a..g are the leaves):
\* [[[[[a,b],[c,d]],e],f],g]   two Pairs at depth 4
\* [a,[b,[c,[d,[[e,f],g]]]]]   a Pair at depth 4 holding a Pair
\* [[[[[[a,b],c],d],e],f],g]   a Pair at depth 4 holding a Pair, leftmost
\* [[a,[b,[[c,d],e]]],[f,g]]   a Pair at depth 4 in the middle of the tree
DeepShapes ==
    LET z == Regular(0) IN
    { Pair(Pair(Pair(Pair(Pair(z, z), Pair(z, z)), z), z), z),
      Pair(z, Pair(z, Pair(z, Pair(z, Pair(Pair(z, z), z))))),
      Pair(Pair(Pair(Pair(Pair(Pair(z, z), z), z), z), z), z),
      Pair(Pair(z, Pair(z, Pair(Pair(z, z), z))), Pair(z, z)) }

\* ------------------------------------------------------ the reducer
Init ==
    /\ \/ \E s \in Shapes \cup DeepShapes : \E f \in [1..LeafCount(s) -> Vals] : tree = Fill(s, f, 0)
       \/ tree \in TestTrees
    /\ orig = tree
    /\ before = tree
    /\ rewrite = "none"
    /\ pc = "loop"
    /\ mag = NoValue
    /\ line = <<>>
    /\ parsed = NoValue
    /\ shown = NoValue
    /\ input = <<>>
    /\ taken = 0
    /\ acc = NoValue
    /\ result = NoValue
    /\ sumpc = "idle"
    /\ IdleAdd
    /\ IdleMax

Explode ==
    /\ pc = "loop"
    /\ LoopIteration(tree).rewrite = "explode"
    /\ tree' = LoopIteration(tree).tree
    /\ before' = tree
    /\ rewrite' = "explode"
    /\ UNCHANGED <<orig, pc, mag, parserVars, sumVars, addVars, maxVars>>

Split ==
    /\ pc = "loop"
    /\ LoopIteration(tree).rewrite = "split"
    /\ tree' = LoopIteration(tree).tree
    /\ before' = tree
    /\ rewrite' = "split"
    /\ UNCHANGED <<orig, pc, mag, parserVars, sumVars, addVars, maxVars>>

Break ==
    /\ pc = "loop"
    /\ LoopIteration(tree).next = "done"
    /\ pc' = "done"
    /\ before' = tree
    /\ rewrite' = "none"
    /\ UNCHANGED <<tree, orig, mag, parserVars, sumVars, addVars, maxVars>>

Panic ==
    /\ pc = "loop"
    /\ LoopIteration(tree).next = "panic"
    /\ pc' = "panic"
    /\ before' = tree
    /\ rewrite' = "none"
    /\ UNCHANGED <<tree, orig, mag, parserVars, sumVars, addVars, maxVars>>

\* magnitude(&self), on the result of make_regular or on a tree that was never
\* reduced (part_1 on a single line)
Magnitude ==
    /\ mag = NoValue
    /\ \/ pc = "done" /\ pc' = pc
       \/ pc = "loop" /\ tree = orig /\ rewrite = "none" /\ pc' = "raw"
    /\ mag' = [kind |-> "Value", v |-> magnitude(tree)]
    /\ UNCHANGED <<tree, orig, before, rewrite, parserVars, sumVars, addVars, maxVars>>

Next == Explode \/ Split \/ Break \/ Panic \/ Magnitude

Spec == Init /\ [][Next]_vars

\* ======================================================================
\* The parser: impl FromStr for SnailNumber
\* ======================================================================
Ok(t) == [kind |-> "Ok", tree |-> t]

Err == [kind |-> "Err"]

DigitChars == <<"0", "1", "2", "3", "4", "5", "6", "7", "8", "9">>

IsDigit(c) == \E d \in DOMAIN DigitChars : DigitChars[d] = c

DigitValue(c) == (CHOOSE d \in DOMAIN DigitChars : DigitChars[d] = c) - 1

IsSpace(c) == c = " "

starts_with(s, c) == Len(s) > 0 /\ s[1] = c

\* str::trim: the text without its leading and trailing whitespace
RECURSIVE trim_start(_)
trim_start(s) == IF Len(s) > 0 /\ IsSpace(s[1]) THEN trim_start(Tail(s)) ELSE s

RECURSIVE trim_end(_)
trim_end(s) ==
    IF Len(s) > 0 /\ IsSpace(s[Len(s)]) THEN trim_end(SubSeq(s, 1, Len(s) - 1)) ELSE s

trim(s) == trim_end(trim_start(s))

\* the digits of an integer literal, most significant first
RECURSIVE DigitsValue(_, _)
DigitsValue(s, sofar) ==
    IF s = <<>> THEN sofar ELSE DigitsValue(Tail(s), (10 * sofar) + DigitValue(s[1]))

AllDigits(s) == Len(s) > 0 /\ \A i \in DOMAIN s : IsDigit(s[i])

\* <i64 as FromStr>::from_str as num.parse() calls it: an optional sign, then
\* one or more digits. (The lines of the model are too short to leave the
\* range of i64.)
parse_i64(num) ==
    CASE starts_with(num, "-") /\ AllDigits(Tail(num)) ->
            [ok |-> TRUE, v |-> 0 - DigitsValue(Tail(num), 0)]
      [] starts_with(num, "+") /\ AllDigits(Tail(num)) ->
            [ok |-> TRUE, v |-> DigitsValue(Tail(num), 0)]
      [] AllDigits(num) ->
            [ok |-> TRUE, v |-> DigitsValue(num, 0)]
      [] OTHER -> [ok |-> FALSE]

\* s.find(|c| c == ',' || c == ']'): the index of the first such character,
\* 0 when there is none
find_end(s) ==
    IF \E i \in DOMAIN s : s[i] \in {",", "]"}
    THEN CHOOSE i \in DOMAIN s :
            /\ s[i] \in {",", "]"}
            /\ \A j \in 1..(i - 1) : s[j] \notin {",", "]"}
    ELSE 0

\* the else arm of parse_one: a regular number up to the next ',' or ']'
parse_regular(s) ==
    LET idx == find_end(s) IN
    IF idx = 0
    THEN [ok |-> FALSE]
    ELSE LET n == parse_i64(SubSeq(s, 1, idx - 1)) IN
         IF n.ok
         THEN [ok |-> TRUE, tree |-> Regular(n.v), rest |-> SubSeq(s, idx, Len(s))]
         ELSE [ok |-> FALSE]

RECURSIVE parse_one(_)
parse_one(s) ==
    IF starts_with(s, "[")
    THEN LET le == parse_one(Tail(s)) IN
         IF ~le.ok THEN [ok |-> FALSE]
         ELSE IF ~starts_with(le.rest, ",") THEN [ok |-> FALSE]
         ELSE LET ri == parse_one(Tail(le.rest)) IN
              IF ~ri.ok THEN [ok |-> FALSE]
              ELSE IF ~starts_with(ri.rest, "]") THEN [ok |-> FALSE]
              ELSE [ok |-> TRUE, tree |-> Pair(le.tree, ri.tree), rest |-> Tail(ri.rest)]
    ELSE parse_regular(s)

\* from_str without the test that nothing is left over
from_str_ignoring_rest(text) ==
    LET r == parse_one(trim(text)) IN
    IF r.ok THEN Ok(r.tree) ELSE Err

from_str(text) ==
    LET r == parse_one(trim(text)) IN
    IF ~r.ok THEN Err
    ELSE IF r.rest # <<>> THEN Err
    ELSE Ok(r.tree)

\* ------------------------------------------------------------- Display
RECURSIVE NatDigits(_)
NatDigits(n) ==
    IF n < 10 THEN <<DigitChars[n + 1]>> ELSE Append(NatDigits(n \div 10), DigitChars[(n % 10) + 1])

\* write!(f, "{}", n) of an i64
DisplayValue(n) == IF n < 0 THEN <<"-">> \o NatDigits(0 - n) ELSE NatDigits(n)

RECURSIVE Display(_)
Display(t) ==
    IF IsRegular(t)
    THEN DisplayValue(t.v)
    ELSE <<"[">> \o Display(t.left) \o <<",">> \o Display(t.right) \o <<"]">>

\* ------------------------------------------------------ bounded lines
MaxLineLen == 4

MaxParseLeaves == 3

\* the characters the bounded lines are made of
Chars == {"[", "]", ",", "1", "0", "-", "+", " "}

InsertAt(s, i, c) == SubSeq(s, 1, i - 1) \o <<c>> \o SubSeq(s, i, Len(s))

DeleteAt(s, i) == SubSeq(s, 1, i - 1) \o SubSeq(s, i + 1, Len(s))

ReplaceAt(s, i, c) == [s EXCEPT ![i] = c]

ParseShapes == UNION {ShapesWith(n) : n \in 1..MaxParseLeaves}

\* Every text of at most MaxLineLen characters, and every text of a tree of
\* at most MaxParseLeaves leaves, as it is and with one character inserted,
\* deleted or replaced.
InitParser ==
    /\ \/ \E n \in 0..MaxLineLen : \E f \in [1..n -> Chars] : line = f
       \/ \E s \in ParseShapes : \E f \in [1..LeafCount(s) -> Vals] :
            LET text == Display(Fill(s, f, 0)) IN
            \/ line = text
            \/ \E i \in 1..(Len(text) + 1), c \in Chars : line = InsertAt(text, i, c)
            \/ \E i \in 1..Len(text) : line = DeleteAt(text, i)
            \/ \E i \in 1..Len(text), c \in Chars : line = ReplaceAt(text, i, c)
    /\ parsed = NoValue
    /\ shown = NoValue
    /\ tree = Regular(0)
    /\ orig = tree
    /\ before = tree
    /\ rewrite = "none"
    /\ pc = "idle"
    /\ mag = NoValue
    /\ input = <<>>
    /\ taken = 0
    /\ acc = NoValue
    /\ result = NoValue
    /\ sumpc = "idle"
    /\ IdleAdd
    /\ IdleMax

\* line.parse::<SnailNumber>()
Parse ==
    /\ parsed = NoValue
    /\ parsed' = from_str(line)
    /\ UNCHANGED <<line, shown, reducerVars, sumVars, addVars, maxVars>>

\* to_string() of the parsed tree
to_string ==
    /\ parsed.kind = "Ok"
    /\ shown = NoValue
    /\ shown' = Display(parsed.tree)
    /\ UNCHANGED <<line, parsed, reducerVars, sumVars, addVars, maxVars>>

NextParser == Parse \/ to_string

SpecParser == InitParser /\ [][NextParser]_vars

\* ======================================================================
\* sum_lines: the fold of add and make_regular over the lines of the input
\* ======================================================================
IsBlank(l) == \A i \in DOMAIN l : IsSpace(l[i])

\* input.trim().lines(): whitespace, line ends included, goes from both ends
\* of the text, which takes the blank lines before the first and after the
\* last line with it; the lines in between stay as they are.
RECURSIVE DropBlankHead(_)
DropBlankHead(ls) ==
    IF ls # <<>> /\ IsBlank(Head(ls)) THEN DropBlankHead(Tail(ls)) ELSE ls

RECURSIVE DropBlankEnd(_)
DropBlankEnd(ls) ==
    IF ls # <<>> /\ IsBlank(ls[Len(ls)])
    THEN DropBlankEnd(SubSeq(ls, 1, Len(ls) - 1))
    ELSE ls

trim_lines(text) == DropBlankEnd(DropBlankHead(text))

\* an Err, with the number of the line it came from (0: there was no line)
ErrAt(i) == [kind |-> "Err", at |-> i]

\* the closure of reduce with the call of make_regular left out
fold_step_without_reduction(a, b, n) ==
    IF a.kind = "Err" THEN a
    ELSE IF b.kind = "Err" THEN ErrAt(n)
    ELSE Ok(add(a.tree, b.tree))

\* the closure handed to reduce: |a, b| { let mut a = a?; a.add(b?);
\* a.make_regular(); Ok(a) }. b is the parse of line number n.
\* Unreachable when make_regular panics.
fold_step(a, b, n) ==
    IF a.kind = "Err" THEN a
    ELSE IF b.kind = "Err" THEN ErrAt(n)
    ELSE LET t == make_regular(add(a.tree, b.tree)) IN
         IF t = Unreachable THEN Unreachable ELSE Ok(t)

\* ------------------------------------------------------ bounded inputs
MaxLines == 2

\* [[[[4,3],4],4],[7,[[8,4],9]]], which added to [1,1] explodes and splits
LeftOperandExample ==
    Pair(Pair(Pair(Pair(Regular(4), Regular(3)), Regular(4)), Regular(4)),
         Pair(Regular(7), Pair(Pair(Regular(8), Regular(4)), Regular(9))))

Twin(n) == Pair(Regular(n), Regular(n))

\* the lines the bounded inputs are made of: texts of trees in normal form,
\* of a tree with a leaf above 9, of a tree nested too deep, a text with
\* spaces around it, a plain integer, a blank line and a malformed text
SumLines ==
    { Display(Twin(1)),
      Display(Twin(2)),
      Display(LeftOperandExample),
      Display(Pair(Pair(Pair(Pair(Regular(1), Regular(1)), Regular(1)), Regular(1)),
                   Regular(1))),
      Display(Pair(Regular(10), Regular(1))),
      Display(ExplodeExample),
      <<" ">> \o Display(Twin(3)) \o <<" ">>,
      <<"5">>,
      <<>>,
      <<"[", "1", ",", "]">> }

\* the inputs of test_part_1: [1,1] .. [4,4] and [1,1] .. [5,5], each on a
\* line of its own after a first empty line
TestInputs ==
    { <<<<>>>> \o [i \in 1..4 |-> <<" ", " ">> \o Display(Twin(i))],
      <<<<>>>> \o [i \in 1..5 |-> <<" ", " ">> \o Display(Twin(i))] \o <<<<" ">>>> }

\* further inputs: whitespace and nothing else, and three lines of which the
\* second is blank or the last does not parse
FurtherInputs ==
    { <<<<" ">>, <<>>, <<" ", " ">>>>,
      <<Display(Twin(1)), <<>>, Display(Twin(2))>>,
      <<Display(Twin(1)), Display(Twin(2)), <<"[", "1", ",", "]">>>>,
      <<Display(LeftOperandExample), Display(Twin(1)), <<"[", "1", ",", "]">>>>,
      <<Display(ExplodeExample), Display(Twin(1)), <<"[", "1", ",", "]">>>> }

InitSum ==
    /\ \/ \E n \in 0..MaxLines : \E f \in [1..n -> SumLines] : input = f
       \/ input \in TestInputs
       \/ input \in FurtherInputs
    /\ taken = 0
    /\ acc = NoValue
    /\ result = NoValue
    /\ sumpc = "start"
    /\ line = <<>>
    /\ parsed = NoValue
    /\ shown = NoValue
    /\ tree = Regular(0)
    /\ orig = tree
    /\ before = tree
    /\ rewrite = "none"
    /\ pc = "idle"
    /\ mag = NoValue
    /\ IdleAdd
    /\ IdleMax

\* reduce takes the first item of the iterator for its accumulator
FirstLine ==
    /\ sumpc = "start"
    /\ trim_lines(input) # <<>>
    /\ acc' = (IF from_str(trim_lines(input)[1]).kind = "Err"
               THEN ErrAt(1)
               ELSE from_str(trim_lines(input)[1]))
    /\ taken' = 1
    /\ sumpc' = "fold"
    /\ UNCHANGED <<input, result, reducerVars, parserVars, addVars, maxVars>>

\* one call of the closure, on the accumulator and the next line
FoldLine ==
    /\ sumpc = "fold"
    /\ taken < Len(trim_lines(input))
    /\ LET r == fold_step(acc, from_str(trim_lines(input)[taken + 1]), taken + 1) IN
       /\ r # Unreachable
       /\ acc' = r
    /\ taken' = taken + 1
    /\ UNCHANGED <<input, result, sumpc, reducerVars, parserVars, addVars, maxVars>>

\* make_regular panics inside the closure
FoldPanics ==
    /\ sumpc = "fold"
    /\ taken < Len(trim_lines(input))
    /\ fold_step(acc, from_str(trim_lines(input)[taken + 1]), taken + 1) = Unreachable
    /\ sumpc' = "panic"
    /\ UNCHANGED <<input, taken, acc, result, reducerVars, parserVars, addVars, maxVars>>

\* the iterator is exhausted: .ok_or(..)?? hands out the accumulator
ReturnSum ==
    /\ sumpc = "fold"
    /\ taken = Len(trim_lines(input))
    /\ result' = acc
    /\ sumpc' = "returned"
    /\ UNCHANGED <<input, taken, acc, reducerVars, parserVars, addVars, maxVars>>

\* no line is answered with the sum of nothing, 0
ReturnNoLinesAsZero ==
    /\ sumpc = "start"
    /\ trim_lines(input) = <<>>
    /\ result' = Ok(Regular(0))
    /\ sumpc' = "returned"
    /\ UNCHANGED <<input, taken, acc, reducerVars, parserVars, addVars, maxVars>>

\* reduce found no item: ok_or(anyhow!("expected at least one line"))
ReturnNoLines ==
    /\ sumpc = "start"
    /\ trim_lines(input) = <<>>
    /\ result' = ErrAt(0)
    /\ sumpc' = "returned"
    /\ UNCHANGED <<input, taken, acc, reducerVars, parserVars, addVars, maxVars>>

NextSum == FirstLine \/ FoldLine \/ FoldPanics \/ ReturnSum \/ ReturnNoLines

SpecSum == InitSum /\ [][NextSum]_vars

\* ======================================================================
\* part_2: the largest magnitude of the sum of two different lines
\* ======================================================================

\* Some(magnitude); None is NoValue
Some(n) == [kind |-> "Some", v |-> n]

\* Ok(magnitude)
OkValue(n) == [kind |-> "Ok", v |-> n]

\* input.trim().lines().map(parse).collect::<Result<Vec<_>>>()?: the Vec of
\* the parsed lines, or the Err of the first line that does not parse
parse_all(text) ==
    LET ls == trim_lines(text)
        bad == {i \in DOMAIN ls : from_str(ls[i]).kind = "Err"}
    IN  IF bad = {}
        THEN [kind |-> "Ok", vec |-> [i \in DOMAIN ls |-> from_str(ls[i]).tree]]
        ELSE ErrAt(CHOOSE i \in bad : \A j \in bad : i <= j)

\* the pairs are told apart by the values of the lines
SkipPairOfEqualLines(nums, l_idx, r_idx) == nums[l_idx] = nums[r_idx]

\* no pair is left out
SkipPairNever(nums, l_idx, r_idx) == FALSE

\* if l_idx == r_idx { return None; }
SkipPair(nums, l_idx, r_idx) == l_idx = r_idx

\* the sum is built and reduced in the element of the Vec itself
pair_eval_in_place(nums, l_idx, r_idx) ==
    LET reduced == make_regular(add(nums[l_idx], nums[r_idx])) IN
    IF reduced = Unreachable
    THEN [numbers |-> nums, v |-> Unreachable]
    ELSE [numbers |-> [nums EXCEPT ![l_idx] = reduced], v |-> Some(magnitude(reduced))]

\* the inner closure past the index test: let mut left = left.clone();
\* left.add(right.clone()); left.make_regular(); Some(left.magnitude()).
\* Hands out the Vec as the call leaves it, and the Option (Unreachable when
\* make_regular panics).
pair_eval(nums, l_idx, r_idx) ==
    LET reduced == make_regular(add(nums[l_idx], nums[r_idx])) IN
    [numbers |-> nums,
     v |-> IF reduced = Unreachable THEN Unreachable ELSE Some(magnitude(reduced))]

\* the later of the two wins
max_of_later(a, b) == IF b = NoValue THEN a ELSE b

\* max() of two partial results, each an Option
max_of(a, b) ==
    IF a = NoValue THEN b
    ELSE IF b = NoValue THEN a
    ELSE IF b.v >= a.v THEN b ELSE a

\* ------------------------------------------------------ bounded inputs
MaxBatch == 2

\* the lines the bounded inputs are made of
BatchLines == { Display(LeftOperandExample), Display(Twin(1)) }

\* further inputs: two lines whose sum depends on the order, twice the same
\* line, three lines, lines that do not parse (a blank line in the middle
\* included), a line nested too deep, a leaf above 9, blank lines and spaces
\* around the lines
TestBatches ==
    { <<Display(Twin(9)), Display(Twin(1))>>,
      <<Display(Twin(9)), Display(Twin(9))>>,
      <<Display(Twin(1)), Display(Twin(9)), Display(LeftOperandExample)>>,
      <<Display(Twin(9)), Display(Twin(9)), Display(Twin(1))>>,
      <<Display(Twin(1)), <<"[", "1", ",", "]">>, Display(Twin(2))>>,
      <<Display(Twin(1)), <<>>, Display(Twin(2))>>,
      <<<<"5">>, Display(Twin(1))>>,
      <<<<"[", "1", ",", "]">>>>,
      <<Display(ExplodeExample), Display(Twin(1))>>,
      <<Display(ExplodeExample), Display(Twin(1)), <<"[", "1", ",", "]">>>>,
      <<Display(Pair(Regular(10), Regular(1))), Display(Twin(1))>>,
      <<<<>>, <<" ", " ">> \o Display(Twin(1)), <<" ", " ">> \o Display(Twin(9)), <<" ">>>>,
      <<<<" ">>, <<>>>> }

InitMax ==
    /\ \/ \E n \in 0..MaxBatch : \E f \in [1..n -> BatchLines] : batch = f
       \/ batch \in TestBatches
    /\ numbers = <<>>
    /\ evaluated = {}
    /\ rows = <<>>
    /\ best = NoValue
    /\ answer = NoValue
    /\ maxpc = "start"
    /\ IdleAdd
    /\ line = <<>>
    /\ parsed = NoValue
    /\ shown = NoValue
    /\ tree = Regular(0)
    /\ orig = tree
    /\ before = tree
    /\ rewrite = "none"
    /\ pc = "idle"
    /\ mag = NoValue
    /\ input = <<>>
    /\ taken = 0
    /\ acc = NoValue
    /\ result = NoValue
    /\ sumpc = "idle"

\* every line parsed: the Vec is there for the tasks
ParseAll ==
    /\ maxpc = "start"
    /\ parse_all(batch).kind = "Ok"
    /\ numbers' = parse_all(batch).vec
    /\ rows' = [i \in DOMAIN parse_all(batch).vec |-> [max |-> NoValue, taken |-> FALSE]]
    /\ maxpc' = "search"
    /\ UNCHANGED <<batch, evaluated, best, answer, reducerVars, parserVars, sumVars, addVars>>

\* the ? after collect: the Err of a line is returned at once
ParseFails ==
    /\ maxpc = "start"
    /\ parse_all(batch).kind = "Err"
    /\ answer' = parse_all(batch)
    /\ maxpc' = "returned"
    /\ UNCHANGED <<batch, numbers, evaluated, rows, best, reducerVars, parserVars, sumVars, addVars>>

\* some task runs the inner closure for one pair of indices it has not run
\* for yet, and the inner max() of that left index takes the value in
EvalPair ==
    /\ maxpc = "search"
    /\ \E l_idx \in DOMAIN numbers, r_idx \in DOMAIN numbers :
        /\ ~SkipPair(numbers, l_idx, r_idx)
        /\ ~\E e \in evaluated : e.l = l_idx /\ e.r = r_idx
        /\ LET e == pair_eval(numbers, l_idx, r_idx) IN
            /\ e.v # Unreachable
            /\ numbers' = e.numbers
            /\ evaluated' = evaluated \cup {[l |-> l_idx, r |-> r_idx, v |-> e.v.v]}
            /\ rows' = [rows EXCEPT ![l_idx].max = max_of(@, e.v)]
    /\ UNCHANGED <<batch, best, answer, maxpc, reducerVars, parserVars, sumVars, addVars>>

\* make_regular panics in a task, and part_2 with it
EvalPanics ==
    /\ maxpc = "search"
    /\ \E l_idx \in DOMAIN numbers, r_idx \in DOMAIN numbers :
        /\ ~SkipPair(numbers, l_idx, r_idx)
        /\ ~\E e \in evaluated : e.l = l_idx /\ e.r = r_idx
        /\ pair_eval(numbers, l_idx, r_idx).v = Unreachable
    /\ maxpc' = "panic"
    /\ UNCHANGED <<batch, numbers, evaluated, rows, best, answer, reducerVars, parserVars, sumVars, addVars>>

\* the inner max() of one left index is complete: the outer filter_map drops
\* a None, the outer max() takes a Some in
RowMax ==
    /\ maxpc = "search"
    /\ \E l_idx \in DOMAIN numbers :
        /\ ~rows[l_idx].taken
        /\ \A r_idx \in DOMAIN numbers :
            SkipPair(numbers, l_idx, r_idx) \/ \E e \in evaluated : e.l = l_idx /\ e.r = r_idx
        /\ best' = max_of(best, rows[l_idx].max)
        /\ rows' = [rows EXCEPT ![l_idx].taken = TRUE]
    /\ UNCHANGED <<batch, numbers, evaluated, answer, maxpc, reducerVars, parserVars, sumVars, addVars>>

\* the outer max() is complete: .ok_or(anyhow!("expected at least two lines"))
ReturnMax ==
    /\ maxpc = "search"
    /\ \A l_idx \in DOMAIN numbers : rows[l_idx].taken
    /\ answer' = (IF best = NoValue THEN ErrAt(0) ELSE OkValue(best.v))
    /\ maxpc' = "returned"
    /\ UNCHANGED <<batch, numbers, evaluated, rows, best, reducerVars, parserVars, sumVars, addVars>>

NextMax == ParseAll \/ ParseFails \/ EvalPair \/ EvalPanics \/ RowMax \/ ReturnMax

SpecMax == InitMax /\ [][NextMax]_vars

\* ======================================================================
\* add, then make_regular, then magnitude: the closure of part_2
\* ======================================================================
MaxAddLeaves == 5

\* every tree of at most MaxAddLeaves leaves whose leaves are all 1 or all 9
\* stands for self and for the argument, besides the pairs of the examples
AddVals == {1, 9}

AddShapes == UNION {ShapesWith(n) : n \in 1..MaxAddLeaves}

AddExamples ==
    { <<LeftOperandExample, Twin(1)>>,
      <<Twin(1), LeftOperandExample>>,
      <<LeftOperandExample, SplitExample>>,
      <<ExplodeExample, Twin(1)>>,
      <<Pair(Regular(10), Regular(1)), Regular(11)>>,
      <<Twin(1), Twin(2)>>,
      <<Pair(Twin(1), Twin(2)), Twin(3)>>,
      <<Pair(Pair(Twin(1), Twin(2)), Twin(3)), Twin(4)>> }

InitAdd ==
    /\ \/ \E s \in AddShapes, t \in AddShapes, v \in AddVals, w \in AddVals :
            /\ lhs = Fill(s, [i \in 1..LeafCount(s) |-> v], 0)
            /\ rhs = Fill(t, [i \in 1..LeafCount(t) |-> w], 0)
       \/ \E p \in AddExamples : lhs = p[1] /\ rhs = p[2]
    /\ tree = lhs
    /\ orig = lhs
    /\ before = lhs
    /\ rewrite = "none"
    /\ pc = "add"
    /\ mag = NoValue
    /\ line = <<>>
    /\ parsed = NoValue
    /\ shown = NoValue
    /\ input = <<>>
    /\ taken = 0
    /\ acc = NoValue
    /\ result = NoValue
    /\ sumpc = "idle"
    /\ IdleMax

\* add with the first rewrite of the reduction done by add itself
AddAndRewrite ==
    /\ pc = "add"
    /\ tree' = LoopIteration(add(tree, rhs)).tree
    /\ orig' = LoopIteration(add(tree, rhs)).tree
    /\ before' = LoopIteration(add(tree, rhs)).tree
    /\ pc' = "loop"
    /\ UNCHANGED <<rewrite, mag, parserVars, sumVars, addVars, maxVars>>

\* left.add(right.clone()); make_regular is called on the sum next
Add ==
    /\ pc = "add"
    /\ tree' = add(tree, rhs)
    /\ orig' = add(tree, rhs)
    /\ before' = add(tree, rhs)
    /\ pc' = "loop"
    /\ UNCHANGED <<rewrite, mag, parserVars, sumVars, addVars, maxVars>>

\* Some(left.magnitude()), of the reduced sum
MagnitudeOfSum ==
    /\ pc = "done"
    /\ mag = NoValue
    /\ mag' = [kind |-> "Value", v |-> magnitude(tree)]
    /\ UNCHANGED <<tree, orig, before, rewrite, pc, parserVars, sumVars, addVars, maxVars>>

NextAdd == Add \/ Explode \/ Split \/ Break \/ Panic \/ MagnitudeOfSum

SpecAdd == InitAdd /\ [][NextAdd]_vars

\* ======================================================================
\* regularize: parse a line, make_regular, to_string
\* ======================================================================
MaxRegularizeLeaves == 5

RegularizeShapes == UNION {ShapesWith(n) : n \in 1..MaxRegularizeLeaves}

\* the lines handed in: the texts of all trees of at most
\* MaxRegularizeLeaves leaves and of the deeper shapes, the two examples, and
\* a text that does not parse; pc is "parse" until the line was parsed and
\* "failed" when regularize returned the Err of the parse
InitRegularize ==
    /\ \/ \E s \in RegularizeShapes \cup DeepShapes : \E f \in [1..LeafCount(s) -> Vals] :
            line = Display(Fill(s, f, 0))
       \/ \E t \in TestTrees : line = Display(t)
       \/ line = <<"[", "1", ",", "]">>
    /\ parsed = NoValue
    /\ shown = NoValue
    /\ tree = Regular(0)
    /\ orig = tree
    /\ before = tree
    /\ rewrite = "none"
    /\ pc = "parse"
    /\ mag = NoValue
    /\ input = <<>>
    /\ taken = 0
    /\ acc = NoValue
    /\ result = NoValue
    /\ sumpc = "idle"
    /\ IdleAdd
    /\ IdleMax

\* let mut number = input.parse::<SnailNumber>()?;
ParseLine ==
    /\ pc = "parse"
    /\ parsed' = from_str(line)
    /\ IF from_str(line).kind = "Ok"
       THEN /\ tree' = from_str(line).tree
            /\ orig' = from_str(line).tree
            /\ before' = from_str(line).tree
            /\ pc' = "loop"
       ELSE /\ pc' = "failed"
            /\ UNCHANGED <<tree, orig, before>>
    /\ UNCHANGED <<line, shown, rewrite, mag, sumVars, addVars, maxVars>>

\* Ok(number.to_string())
ReturnString ==
    /\ pc = "done"
    /\ shown = NoValue
    /\ shown' = Display(tree)
    /\ UNCHANGED <<line, parsed, reducerVars, sumVars, addVars, maxVars>>

NextRegularize == ParseLine \/ Explode \/ Split \/ Break \/ Panic \/ ReturnString

SpecRegularize == InitRegularize /\ [][NextRegularize]_vars

\* the step of regularize at its first line: the line is parsed or the
\* parse fails
Parses ==
    /\ pc = "parse"
    /\ pc' \in {"loop", "failed"}

\* one iteration of the loop of make_regular: a rewrite and another
\* iteration, the break, or the fatal state; the tree the iteration began
\* with is recorded
Iterates ==
    /\ pc = "loop"
    /\ pc' \in {"loop", "done", "panic"}
    /\ before' = tree
    /\ rewrite' \in {"none", "explode", "split"}

\* regularize up to the return of make_regular: the parse of the line and
\* the loop
NextMakeRegular == ParseLine \/ Explode \/ Split \/ Break \/ Panic

\* the call runs on: once begun it does not halt before its parse or between
\* two iterations of the loop
SpecMakeRegularRuns ==
    /\ InitRegularize
    /\ [][NextMakeRegular]_vars
    /\ WF_pc(Parses)
    /\ WF_<<pc, before, rewrite>>(Iterates)

\* ======================================================================
\* test_part_1 and test_part_2: sum_lines, part_1 and part_2 on the ten lines
\* of the example
\* ======================================================================
Indent(n) == [i \in 1..n |-> " "]

\* the ten lines of the input of both tests
TenLines ==
    << \* [[[0,[5,8]],[[1,7],[9,6]]],[[4,[1,2]],[[1,4],2]]]
       <<"[", "[", "[", "0", ",", "[", "5", ",", "8", "]", "]", ",", "[",
          "[", "1", ",", "7", "]", ",", "[", "9", ",", "6", "]", "]", "]", ",",
          "[", "[", "4", ",", "[", "1", ",", "2", "]", "]", ",", "[", "[", "1",
          ",", "4", "]", ",", "2", "]", "]", "]">>,
       \* [[[5,[2,8]],4],[5,[[9,9],0]]]
       <<"[", "[", "[", "5", ",", "[", "2", ",", "8", "]", "]", ",", "4",
          "]", ",", "[", "5", ",", "[", "[", "9", ",", "9", "]", ",", "0", "]",
          "]", "]">>,
       \* [6,[[[6,2],[5,6]],[[7,6],[4,7]]]]
       <<"[", "6", ",", "[", "[", "[", "6", ",", "2", "]", ",", "[", "5",
          ",", "6", "]", "]", ",", "[", "[", "7", ",", "6", "]", ",", "[", "4",
          ",", "7", "]", "]", "]", "]">>,
       \* [[[6,[0,7]],[0,9]],[4,[9,[9,0]]]]
       <<"[", "[", "[", "6", ",", "[", "0", ",", "7", "]", "]", ",", "[",
          "0", ",", "9", "]", "]", ",", "[", "4", ",", "[", "9", ",", "[", "9",
          ",", "0", "]", "]", "]", "]">>,
       \* [[[7,[6,4]],[3,[1,3]]],[[[5,5],1],9]]
       <<"[", "[", "[", "7", ",", "[", "6", ",", "4", "]", "]", ",", "[",
          "3", ",", "[", "1", ",", "3", "]", "]", "]", ",", "[", "[", "[", "5",
          ",", "5", "]", ",", "1", "]", ",", "9", "]", "]">>,
       \* [[6,[[7,3],[3,2]]],[[[3,8],[5,7]],4]]
       <<"[", "[", "6", ",", "[", "[", "7", ",", "3", "]", ",", "[", "3",
          ",", "2", "]", "]", "]", ",", "[", "[", "[", "3", ",", "8", "]", ",",
          "[", "5", ",", "7", "]", "]", ",", "4", "]", "]">>,
       \* [[[[5,4],[7,7]],8],[[8,3],8]]
       <<"[", "[", "[", "[", "5", ",", "4", "]", ",", "[", "7", ",", "7",
          "]", "]", ",", "8", "]", ",", "[", "[", "8", ",", "3", "]", ",", "8",
          "]", "]">>,
       \* [[9,3],[[9,9],[6,[4,9]]]]
       <<"[", "[", "9", ",", "3", "]", ",", "[", "[", "9", ",", "9", "]",
          ",", "[", "6", ",", "[", "4", ",", "9", "]", "]", "]", "]">>,
       \* [[2,[[7,7],7]],[[5,8],[[9,3],[0,2]]]]
       <<"[", "[", "2", ",", "[", "[", "7", ",", "7", "]", ",", "7", "]",
          "]", ",", "[", "[", "5", ",", "8", "]", ",", "[", "[", "9", ",", "3",
          "]", ",", "[", "0", ",", "2", "]", "]", "]", "]">>,
       \* [[[[5,2],5],[8,[3,7]]],[[5,[7,5]],[4,4]]]
       <<"[", "[", "[", "[", "5", ",", "2", "]", ",", "5", "]", ",", "[",
          "8", ",", "[", "3", ",", "7", "]", "]", "]", ",", "[", "[", "5", ",",
          "[", "7", ",", "5", "]", "]", ",", "[", "4", ",", "4", "]", "]",
          "]">> >>

\* the text the tests expect of sum_lines(input).unwrap().to_string():
\* [[[[6,6],[7,6]],[[7,7],[7,0]]],[[[7,7],[7,7]],[[7,8],[9,9]]]]
TenLinesSumText ==
    <<"[", "[", "[", "[", "6", ",", "6", "]", ",", "[", "7", ",", "6",
      "]", "]", ",", "[", "[", "7", ",", "7", "]", ",", "[", "7", ",", "0",
      "]", "]", "]", ",", "[", "[", "[", "7", ",", "7", "]", ",", "[", "7",
      ",", "7", "]", "]", ",", "[", "[", "7", ",", "8", "]", ",", "[", "9",
      ",", "9", "]", "]", "]", "]">>

\* the text of the tests: an empty first line, the ten lines indented by
\* eight spaces, and a last line of four spaces
TenLinesInput ==
    <<<<>>>> \o [i \in 1..10 |-> Indent(8) \o TenLines[i]] \o <<Indent(4)>>

\* the inputs the calls are run on: the text of the tests, and short texts
\* that take the calls through their other returns (a sum that needs no
\* rewrite, a line nested too deep, a line that does not parse, no line,
\* one line)
TestRuns ==
    { TenLinesInput,
      <<Display(Twin(1)), Display(Twin(2))>>,
      <<Display(ExplodeExample), Display(Twin(1))>>,
      <<Display(Twin(1)), <<"[", "1", ",", "]">>>>,
      <<<<" ">>>>,
      <<Display(Twin(1))>> }

InitTests ==
    /\ input \in TestRuns
    /\ batch = input
    /\ taken = 0
    /\ acc = NoValue
    /\ result = NoValue
    /\ sumpc = "start"
    /\ numbers = <<>>
    /\ evaluated = {}
    /\ rows = <<>>
    /\ best = NoValue
    /\ answer = NoValue
    /\ maxpc = "start"
    /\ line = <<>>
    /\ parsed = NoValue
    /\ shown = NoValue
    /\ tree = Regular(0)
    /\ orig = tree
    /\ before = tree
    /\ rewrite = "none"
    /\ pc = "idle"
    /\ mag = NoValue
    /\ IdleAdd

\* the closure of reduce up to its call of make_regular: let mut a = a?;
\* a.add(b?), on the accumulator and the parse of the next line
FoldAdd ==
    /\ sumpc = "fold"
    /\ pc = "idle"
    /\ taken < Len(trim_lines(input))
    /\ acc.kind = "Ok"
    /\ from_str(trim_lines(input)[taken + 1]).kind = "Ok"
    /\ tree' = add(acc.tree, from_str(trim_lines(input)[taken + 1]).tree)
    /\ orig' = tree'
    /\ before' = tree'
    /\ rewrite' = "none"
    /\ pc' = "loop"
    /\ UNCHANGED <<mag, parserVars, sumVars, addVars, maxVars>>

\* one of the two ? of the closure returns the Err
FoldErr ==
    /\ sumpc = "fold"
    /\ pc = "idle"
    /\ taken < Len(trim_lines(input))
    /\ acc.kind = "Err" \/ from_str(trim_lines(input)[taken + 1]).kind = "Err"
    /\ acc' = (IF acc.kind = "Err" THEN acc ELSE ErrAt(taken + 1))
    /\ taken' = taken + 1
    /\ UNCHANGED <<input, result, sumpc, reducerVars, parserVars, addVars, maxVars>>

\* make_regular has returned: Ok(a) is the accumulator for the next line
FoldReduced ==
    /\ sumpc = "fold"
    /\ pc = "done"
    /\ acc' = Ok(tree)
    /\ taken' = taken + 1
    /\ pc' = "idle"
    /\ UNCHANGED <<tree, orig, before, rewrite, mag, input, result, sumpc, parserVars, addVars, maxVars>>

\* the iterator is exhausted between two calls of the closure
ReturnFolded ==
    /\ pc = "idle"
    /\ ReturnSum

\* part_1: Ok(sum_lines(input)?.magnitude())
Part1 ==
    /\ sumpc = "returned"
    /\ result.kind = "Ok"
    /\ mag = NoValue
    /\ mag' = [kind |-> "Value", v |-> magnitude(result.tree)]
    /\ UNCHANGED <<tree, orig, before, rewrite, pc, parserVars, sumVars, addVars, maxVars>>

\* test_part_1 is over: sum_lines has panicked or returned an Err, or part_1
\* has returned
Part1Over ==
    \/ pc = "panic"
    \/ sumpc = "returned" /\ (result.kind = "Err" \/ mag # NoValue)

\* test_part_2 after test_part_1: part_2 parses every line
Part2Parses ==
    /\ Part1Over
    /\ ParseAll

\* part_2 returns the Err of a line
Part2Fails ==
    /\ Part1Over
    /\ ParseFails

\* the pairs of indices the inner closure has still to run for
Pending ==
    {p \in (DOMAIN numbers) \X (DOMAIN numbers) :
        /\ ~SkipPair(numbers, p[1], p[2])
        /\ ~\E e \in evaluated : e.l = p[1] /\ e.r = p[2]}

\* the first of them in the order of the iterators: by left index, then by
\* right index
FirstPending ==
    CHOOSE p \in Pending :
        \A q \in Pending : p[1] < q[1] \/ (p[1] = q[1] /\ p[2] <= q[2])

\* the inner max() of every left index whose pairs are all evaluated has
\* been taken into the outer max()
RowsTaken ==
    {l_idx \in DOMAIN numbers : ~rows[l_idx].taken /\ {p \in Pending : p[1] = l_idx} = {}} = {}

\* part_2 on one thread: the iterators hand out the pairs in index order, and
\* the inner closure runs for the next pair
EvalInOrder ==
    /\ maxpc = "search"
    /\ Pending # {}
    /\ RowsTaken
    /\ LET e == pair_eval(numbers, FirstPending[1], FirstPending[2]) IN
        /\ e.v # Unreachable
        /\ numbers' = e.numbers
        /\ evaluated' = evaluated \cup
                {[l |-> FirstPending[1], r |-> FirstPending[2], v |-> e.v.v]}
        /\ rows' = [rows EXCEPT ![FirstPending[1]].max = max_of(@, e.v)]
    /\ UNCHANGED <<batch, best, answer, maxpc, reducerVars, parserVars, sumVars, addVars>>

\* make_regular panics in the closure, and part_2 with it
EvalInOrderPanics ==
    /\ maxpc = "search"
    /\ Pending # {}
    /\ RowsTaken
    /\ pair_eval(numbers, FirstPending[1], FirstPending[2]).v = Unreachable
    /\ maxpc' = "panic"
    /\ UNCHANGED <<batch, numbers, evaluated, rows, best, answer, reducerVars, parserVars, sumVars, addVars>>

NextTests ==
    \/ FirstLine \/ FoldAdd \/ FoldErr \/ Explode \/ Split \/ Break \/ Panic
    \/ FoldReduced \/ ReturnFolded \/ ReturnNoLines \/ Part1
    \/ Part2Parses \/ Part2Fails \/ EvalInOrder \/ EvalInOrderPanics \/ RowMax \/ ReturnMax

SpecTests == InitTests /\ [][NextTests]_vars

\* ======================================================================
\* Properties of the reducer, stated on the flattened tree
\* ======================================================================

\* The leaves of t from left to right, each with its path from the root
\* (0 = left child, 1 = right child); the depth of a leaf is Len(path).
RECURSIVE LeavesAt(_, _)
LeavesAt(t, p) ==
    IF IsRegular(t)
    THEN <<[path |-> p, v |-> t.v]>>
    ELSE LeavesAt(t.left, Append(p, 0)) \o LeavesAt(t.right, Append(p, 1))

Leaves(t) == LeavesAt(t, <<>>)

Parent(p) == SubSeq(p, 1, Len(p) - 1)

\* a Pair at depth >= 4 exists iff some leaf lies at depth >= 5
HasDeepPair(t) == LET ls == Leaves(t) IN \E i \in DOMAIN ls : Len(ls[i].path) >= 5

HasBigLeaf(t) == LET ls == Leaves(t) IN \E i \in DOMAIN ls : ls[i].v > 9

NormalForm(t) == ~HasDeepPair(t) /\ ~HasBigLeaf(t)

\* the indices i such that leaves i and i+1 are the two children of one Pair
\* at depth >= 4
ExplodableAt(ls) ==
    {i \in 1..(Len(ls) - 1) :
        /\ Len(ls[i].path) >= 5
        /\ Len(ls[i + 1].path) = Len(ls[i].path)
        /\ Parent(ls[i + 1].path) = Parent(ls[i].path)}

Least(S) == CHOOSE i \in S : \A j \in S : i <= j

\* One explode on the flattened tree: the leftmost explodable pair becomes a
\* single 0 at its parent's place, its values go to the two neighbours.
FlatExplode(ls) ==
    LET i == Least(ExplodableAt(ls))
        l == ls[i].v
        r == ls[i + 1].v
    IN  [k \in 1..(Len(ls) - 1) |->
            CASE k < i - 1 -> ls[k]
              [] k = i - 1 -> [path |-> ls[k].path, v |-> ls[k].v + l]
              [] k = i     -> [path |-> Parent(ls[i].path), v |-> 0]
              [] k = i + 1 -> [path |-> ls[k + 1].path, v |-> ls[k + 1].v + r]
              [] OTHER     -> ls[k + 1]]

BigAt(ls) == {i \in 1..Len(ls) : ls[i].v > 9}

\* floor(v/2) without the division of the code
Half(v) == CHOOSE h \in 0..v : 2 * h <= v /\ v < 2 * h + 2

\* One split on the flattened tree.
FlatSplit(ls) ==
    LET i == Least(BigAt(ls)) IN
    [k \in 1..(Len(ls) + 1) |->
        CASE k < i -> ls[k]
          [] k = i -> [path |-> Append(ls[i].path, 0), v |-> Half(ls[i].v)]
          [] k = i + 1 ->
                [path |-> Append(ls[i].path, 1), v |-> ls[i].v - Half(ls[i].v)]
          [] OTHER -> ls[k - 1]]

RECURSIVE SumOver(_, _)
SumOver(f, n) == IF n = 0 THEN 0 ELSE f[n] + SumOver(f, n - 1)

RECURSIVE Weight(_)
Weight(p) == IF p = <<>> THEN 1 ELSE (IF Head(p) = 0 THEN 3 ELSE 2) * Weight(Tail(p))

\* the magnitude as a sum over the leaves: value times 3 per left turn and 2
\* per right turn on the way down
WeightedSum(ls) == SumOver([k \in DOMAIN ls |-> ls[k].v * Weight(ls[k].path)], Len(ls))

\* C1: a split is the rewrite of a loop iteration only when the tree it
\* started from held no Pair at depth >= 4; whenever such a Pair exists the
\* rewrite that follows is an explode.
C1_ExplodeBeforeSplit ==
    /\ rewrite = "split" => ~HasDeepPair(before)
    /\ (HasDeepPair(before) /\ tree # before) => rewrite = "explode"
    /\ (pc = "loop" /\ HasDeepPair(tree)) => LoopIteration(tree).rewrite # "split"

\* an explode was taken although a leaf > 9 was waiting to be split
C1_Witness ==
    rewrite = "explode" /\ HasDeepPair(before) /\ HasBigLeaf(before)

\* C2: when make_regular has returned, the tree holds no Pair at depth >= 4
\* and no leaf above 9.
C2_ReturnsNormalForm == pc = "done" => NormalForm(tree)

C2_Witness ==
    pc = "done" /\ HasDeepPair(orig) /\ HasBigLeaf(orig) /\ NormalForm(tree)

\* no Pair lies below depth 4: every leaf is at depth 5 or less
NoPairBelowDepth4(t) == LET ls == Leaves(t) IN \A i \in DOMAIN ls : Len(ls[i].path) <= 5

\* C3: an explode step gives the tree whose flattening is the flattened
\* explode of the tree before: leftmost deep pair replaced by 0, its left
\* value added to the leaf before it, its right value to the leaf after it.
\* The step is taken whenever the tree holds a Pair at depth 4 and none below.
C3_ExplodeIsFlatExplode ==
    /\ rewrite = "explode" =>
          /\ ExplodableAt(Leaves(before)) # {}
          /\ Leaves(tree) = FlatExplode(Leaves(before))
    /\ (pc = "loop" /\ HasDeepPair(tree) /\ NoPairBelowDepth4(tree)) =>
          /\ LoopIteration(tree).rewrite = "explode"
          /\ Leaves(LoopIteration(tree).tree) = FlatExplode(Leaves(tree))

\* an explode whose left neighbour lies outside the subtree of the exploded
\* pair's parent and whose right neighbour exists too
C3_Witness ==
    /\ rewrite = "explode"
    /\ LET ls == Leaves(before)
           i == Least(ExplodableAt(ls))
           up == Parent(Parent(ls[i].path))
       IN  /\ i > 1
           /\ i + 1 < Len(ls)
           /\ ls[i].v > 0
           /\ SubSeq(ls[i - 1].path, 1, Len(up)) # up

\* C4: an exploded pair with no leaf on one side loses that value without an
\* error: the loop goes on, and [[[[[9,8],1],2],3],4] ends as
\* [[[[0,9],2],3],4].
C4_CarryWithoutDestination ==
    /\ (rewrite = "explode" /\ Least(ExplodableAt(Leaves(before))) = 1) =>
          /\ pc = "loop"
          /\ Leaves(tree)[1].v = 0
          /\ SumOver([k \in DOMAIN Leaves(tree) |-> Leaves(tree)[k].v],
                     Len(Leaves(tree)))
               = SumOver([k \in DOMAIN Leaves(before) |-> Leaves(before)[k].v],
                         Len(Leaves(before))) - Leaves(before)[1].v
    /\ (rewrite = "explode"
          /\ Least(ExplodableAt(Leaves(before))) = Len(Leaves(before)) - 1) =>
          /\ pc = "loop"
          /\ Leaves(tree)[Len(Leaves(tree))].v = 0
    /\ orig = ExplodeExample =>
          /\ pc # "panic"
          /\ pc = "done" =>
                tree = Pair(Pair(Pair(Pair(Regular(0), Regular(9)), Regular(2)),
                                 Regular(3)), Regular(4))

C4_Witness == orig = ExplodeExample /\ pc = "done" /\ tree # orig

\* C5: a split step replaces the leftmost leaf above 9 by the pair of its
\* halves, rounded down and up, and nothing else; with no leaf above 9
\* try_split answers false and leaves the tree as it is.
C5_SplitIsFlatSplit ==
    /\ rewrite = "split" =>
          /\ BigAt(Leaves(before)) # {}
          /\ Leaves(tree) = FlatSplit(Leaves(before))
    /\ ~HasBigLeaf(tree) => try_split(tree) = [done |-> FALSE, tree |-> tree]
    /\ orig = SplitExample /\ before = orig /\ rewrite = "split" =>
          tree = Pair(Pair(Regular(5), Regular(5)), Regular(11))
    /\ orig = SplitExample /\ before # orig /\ rewrite = "split" =>
          tree = Pair(Pair(Regular(5), Regular(5)), Pair(Regular(5), Regular(6)))

\* a split with a second leaf above 9 to the right of the split one
C5_Witness ==
    /\ rewrite = "split"
    /\ Cardinality(BigAt(Leaves(before))) >= 2
    /\ Least(BigAt(Leaves(before))) > 1

\* C9: magnitude is the leaf value on a leaf and three times the left plus
\* twice the right magnitude on a pair, on reduced and unreduced trees
\* alike, and leaves the tree as it was.
C9_Magnitude ==
    mag # NoValue =>
        /\ mag.v = WeightedSum(Leaves(tree))
        /\ IsRegular(tree) => mag.v = tree.v
        /\ pc = "raw" => tree = orig
        /\ pc = "done" => tree = before

\* the magnitude of a tree that is not in normal form
C9_Witness ==
    /\ mag # NoValue
    /\ pc = "raw"
    /\ IsPair(tree)
    /\ ~NormalForm(tree)
    /\ mag.v > 0

\* ======================================================================
\* Properties of the parser, stated against the grammar
\*     Number := Digits | "[" Number "," Number "]"
\* ======================================================================

\* s is a Number of the grammar
RECURSIVE IsNumberText(_)
IsNumberText(s) ==
    \/ Len(s) > 0 /\ \A i \in DOMAIN s : IsDigit(s[i])
    \/ /\ Len(s) >= 5
       /\ s[1] = "["
       /\ s[Len(s)] = "]"
       /\ \E k \in 3..(Len(s) - 2) :
            /\ s[k] = ","
            /\ IsNumberText(SubSeq(s, 2, k - 1))
            /\ IsNumberText(SubSeq(s, k + 1, Len(s) - 1))

\* s is a Number of the grammar widened by an optional sign before Digits
RECURSIVE IsSignedNumberText(_)
IsSignedNumberText(s) ==
    \/ Len(s) > 0 /\ \A i \in DOMAIN s : IsDigit(s[i])
    \/ Len(s) > 1 /\ s[1] \in {"-", "+"} /\ \A i \in 2..Len(s) : IsDigit(s[i])
    \/ /\ Len(s) >= 5
       /\ s[1] = "["
       /\ s[Len(s)] = "]"
       /\ \E k \in 3..(Len(s) - 2) :
            /\ s[k] = ","
            /\ IsSignedNumberText(SubSeq(s, 2, k - 1))
            /\ IsSignedNumberText(SubSeq(s, k + 1, Len(s) - 1))

RECURSIVE Power10(_)
Power10(n) == IF n = 0 THEN 1 ELSE 10 * Power10(n - 1)

\* the value of a text of digits, as a sum of digit times power of ten
DigitsDenote(s) ==
    SumOver([i \in DOMAIN s |-> DigitValue(s[i]) * Power10(Len(s) - i)], Len(s))

\* the tree a Number of the grammar denotes
RECURSIVE TreeOfText(_)
TreeOfText(s) ==
    IF \A i \in DOMAIN s : IsDigit(s[i])
    THEN Regular(DigitsDenote(s))
    ELSE LET k == CHOOSE k \in 3..(Len(s) - 2) :
                    /\ s[k] = ","
                    /\ IsNumberText(SubSeq(s, 2, k - 1))
                    /\ IsNumberText(SubSeq(s, k + 1, Len(s) - 1))
         IN  Pair(TreeOfText(SubSeq(s, 2, k - 1)), TreeOfText(SubSeq(s, k + 1, Len(s) - 1)))

\* the text without the spaces around it, by index arithmetic
Core(s) ==
    LET inked == {i \in DOMAIN s : s[i] # " "} IN
    IF inked = {} THEN <<>>
    ELSE SubSeq(s, Least(inked), CHOOSE i \in inked : \A j \in inked : j <= i)

AllRegularsNatural(t) == \A i \in DOMAIN Leaves(t) : Leaves(t)[i].v >= 0

\* C6: every line of the grammar parses, to the tree it denotes; a line that
\* is a plain integer included.
C6_GrammarLinesParse ==
    (parsed # NoValue /\ IsNumberText(Core(line))) =>
        parsed = Ok(TreeOfText(Core(line)))

\* the part of C6 the code keeps: every bracketed line of the grammar parses
\* to the tree it denotes
C6_PairLinesParse ==
    (parsed # NoValue /\ IsNumberText(Core(line)) /\ starts_with(Core(line), "[")) =>
        parsed = Ok(TreeOfText(Core(line)))

\* C7: a line that is no Number is answered with an error: a missing comma,
\* a missing bracket, characters after the number, whitespace inside, an
\* empty line. (A sign before the digits is the one defect not counted here.)
C7_MalformedLinesFail ==
    (parsed # NoValue /\ ~IsSignedNumberText(Core(line))) => parsed = Err

\* a text with a space inside its brackets was refused
C7_Witness ==
    /\ parsed = Err
    /\ Len(line) >= 6
    /\ line[1] = "["
    /\ line[Len(line)] = "]"
    /\ \E i \in 2..(Len(line) - 1) : line[i] = " "
    /\ IsNumberText(SelectSeq(line, LAMBDA c : c # " "))

\* C8: a line with a sign character is refused, so that every leaf of every
\* parsed tree is non-negative.
C8_SignsRefused ==
    parsed # NoValue =>
        /\ (\E i \in DOMAIN line : line[i] \in {"-", "+"}) => parsed = Err
        /\ parsed.kind = "Ok" => AllRegularsNatural(parsed.tree)

\* ======================================================================
\* Properties of sum_lines
\* ======================================================================
AllLinesParse(text) ==
    /\ trim_lines(text) # <<>>
    /\ \A i \in DOMAIN trim_lines(text) : from_str(trim_lines(text)[i]).kind = "Ok"

\* C10: on one or more parseable lines sum_lines returns a tree in normal
\* form.
C10_SumIsNormalForm ==
    (sumpc \in {"returned", "panic"} /\ AllLinesParse(input)) =>
        /\ sumpc = "returned"
        /\ result.kind = "Ok"
        /\ NormalForm(result.tree)

\* the leaves of Pair(a, b), from the leaves of a and of b
FlatAdd(la, lb) ==
    [k \in 1..(Len(la) + Len(lb)) |->
        IF k <= Len(la)
        THEN [path |-> <<0>> \o la[k].path, v |-> la[k].v]
        ELSE [path |-> <<1>> \o lb[k - Len(la)].path, v |-> lb[k - Len(la)].v]]

\* the reduction on the flattened tree: explode while a pair lies at depth
\* >= 4, else split while a leaf is above 9
RECURSIVE FlatReduce(_)
FlatReduce(ls) ==
    IF ExplodableAt(ls) # {} THEN FlatReduce(FlatExplode(ls))
    ELSE IF BigAt(ls) # {} THEN FlatReduce(FlatSplit(ls))
    ELSE ls

\* the lines of a text that hold ink, in their order
InkedLines(text) == SelectSeq(text, LAMBDA l : Core(l) # <<>>)

\* no blank line stands between two lines that hold ink
BlankOnlyAtEnds(text) ==
    \A i, j, k \in DOMAIN text :
        (i < j /\ j < k /\ Core(text[i]) # <<>> /\ Core(text[k]) # <<>>) => Core(text[j]) # <<>>

\* l is the text of a pair in normal form
NormalFormLine(l) ==
    /\ IsNumberText(Core(l))
    /\ Core(l)[1] = "["
    /\ NormalForm(TreeOfText(Core(l)))

\* a text of one or more lines, each the text of a pair in normal form
NormalFormLines(text) ==
    /\ InkedLines(text) # <<>>
    /\ BlankOnlyAtEnds(text)
    /\ \A i \in DOMAIN InkedLines(text) : NormalFormLine(InkedLines(text)[i])

\* the leaves of reduce(add(.. reduce(add(t1, t2)) .., tk)) for the first k
\* of the lines T
RECURSIVE FlatFold(_, _)
FlatFold(T, k) ==
    IF k = 1
    THEN FlatReduce(Leaves(TreeOfText(Core(T[1]))))
    ELSE FlatReduce(FlatAdd(FlatFold(T, k - 1), Leaves(TreeOfText(Core(T[k])))))

\* [[[[3,0],[5,3]],[4,4]],[5,5]]
FiveLinesSum ==
    Pair(Pair(Pair(Pair(Regular(3), Regular(0)), Pair(Regular(5), Regular(3))),
              Pair(Regular(4), Regular(4))),
         Pair(Regular(5), Regular(5)))

\* the lines [1,1] .. [5,5]
FiveLines ==
    [i \in 1..5 |-> <<"[", <<"1", "2", "3", "4", "5">>[i], ",", <<"1", "2", "3", "4", "5">>[i], "]">>]

IsFiveLinesInput(text) ==
    /\ Len(InkedLines(text)) = 5
    /\ \A i \in 1..5 : Core(InkedLines(text)[i]) = FiveLines[i]

\* C11: on lines in normal form sum_lines folds in input order, the
\* accumulator as the left operand, with a full reduction after every
\* addition: after k lines the accumulator is reduce(add(.. reduce(add(t1,
\* t2)) .., tk)), and that of the last line is what is returned; the lines
\* [1,1] .. [5,5] give [[[[3,0],[5,3]],[4,4]],[5,5]].
C11_FoldInInputOrder ==
    (sumpc \in {"fold", "returned", "panic"} /\ NormalFormLines(input)) =>
        /\ sumpc # "panic"
        /\ acc.kind = "Ok"
        /\ Leaves(acc.tree) = FlatFold(InkedLines(input), taken)
        /\ sumpc = "returned" =>
            /\ taken = Len(InkedLines(input))
            /\ result = acc
            /\ IsFiveLinesInput(input) => result = Ok(FiveLinesSum)

\* the five lines of the example were summed
C11_Witness ==
    /\ sumpc = "returned"
    /\ IsFiveLinesInput(input)
    /\ NormalFormLines(input)
    /\ taken = 5
    /\ result = Ok(FiveLinesSum)

\* ======================================================================
\* Properties of part_2
\* ======================================================================

\* a text of lines that are pairs of the grammar, blank lines only before
\* and after them
PairLines(text) ==
    /\ BlankOnlyAtEnds(text)
    /\ \A i \in DOMAIN InkedLines(text) :
        IsNumberText(Core(InkedLines(text)[i])) /\ Core(InkedLines(text)[i])[1] = "["

\* the tree that line i of the text denotes
LineTree(text, i) == TreeOfText(Core(InkedLines(text)[i]))

\* magnitude(reduce(add(a, b))) on the flattened trees
FlatPairMagnitude(a, b) == WeightedSum(FlatReduce(FlatAdd(Leaves(a), Leaves(b))))

OrderedPairs(n) == {p \in (1..n) \X (1..n) : p[1] # p[2]}

Greatest(S) == CHOOSE m \in S : \A x \in S : x <= m

\* C12: over two or more parsed lines part_2 returns the greatest of
\* magnitude(reduce(add(t_i, t_j))) over all ordered pairs of different
\* indices: the closure has run for (i, j) and for (j, i), for no (i, i), and
\* for two equal lines at different indices.
C12_MaxOverOrderedPairs ==
    (maxpc = "returned" /\ PairLines(batch) /\ Len(InkedLines(batch)) >= 2) =>
        /\ {<<e.l, e.r>> : e \in evaluated} = OrderedPairs(Len(InkedLines(batch)))
        /\ answer = OkValue(Greatest({FlatPairMagnitude(LineTree(batch, p[1]), LineTree(batch, p[2])) :
                                        p \in OrderedPairs(Len(InkedLines(batch)))}))

\* three lines, two of them equal; the answer is the sum of the two equal
\* lines, and some pair has another value in the other order
C12_Witness ==
    /\ maxpc = "returned"
    /\ answer.kind = "Ok"
    /\ Len(numbers) = 3
    /\ \E e \in evaluated : numbers[e.l] = numbers[e.r] /\ e.v = answer.v
    /\ \E e, f \in evaluated : e.l = f.r /\ e.r = f.l /\ e.v < f.v

\* part_2 with one task: the pairs in the order of their indices, -1 for
\* no value yet
RECURSIVE SequentialMax(_, _)
SequentialMax(nums, k) ==
    IF k = 0 THEN 0 - 1
    ELSE LET l_idx == ((k - 1) \div Len(nums)) + 1
             r_idx == ((k - 1) % Len(nums)) + 1
             sofar == SequentialMax(nums, k - 1)
         IN  IF l_idx = r_idx THEN sofar
             ELSE LET m == magnitude(make_regular(add(nums[l_idx], nums[r_idx]))) IN
                  IF m > sofar THEN m ELSE sofar

\* C13: whatever the order in which the tasks evaluate the pairs and the
\* partial maxima are combined, the value returned is the one a single task
\* working in index order returns, and it is at least the magnitude of
\* every pair; on the way every partial maximum is at least each value it
\* has taken in.
C13_SameUnderEveryInterleaving ==
    /\ maxpc \in {"search", "returned"} =>
        /\ \A e \in evaluated : rows[e.l].max # NoValue /\ rows[e.l].max.v >= e.v
        /\ \A e \in evaluated : rows[e.l].taken => (best # NoValue /\ best.v >= e.v)
    /\ (maxpc = "returned" /\ answer.kind = "Ok") =>
        /\ answer.v = SequentialMax(numbers, Len(numbers) * Len(numbers))
        /\ \A p \in OrderedPairs(Len(numbers)) :
            answer.v >= magnitude(make_regular(add(numbers[p[1]], numbers[p[2]])))

\* three lines: a pair below the answer and the pair of the answer lie in
\* different rows
C13_Witness ==
    /\ maxpc = "returned"
    /\ answer.kind = "Ok"
    /\ Len(numbers) = 3
    /\ \E e, f \in evaluated : e.v < answer.v /\ f.v = answer.v /\ e.l # f.l

\* C14: evaluating a pair leaves every tree of the shared Vec as it was
\* parsed, and the value of every pair is the one computed from the trees as
\* parsed, whichever pairs were evaluated before it.
C14_OperandsUnchanged ==
    (maxpc \in {"search", "panic", "returned"} /\ parse_all(batch).kind = "Ok") =>
        /\ numbers = parse_all(batch).vec
        /\ PairLines(batch) => \A i \in DOMAIN numbers : numbers[i] = LineTree(batch, i)
        /\ \A e \in evaluated :
            e.v = magnitude(make_regular(add(parse_all(batch).vec[e.l], parse_all(batch).vec[e.r])))

\* a line was the left operand of a sum that the reduction rewrote, and
\* after that an operand of another pair
C14_Witness ==
    /\ maxpc = "search"
    /\ \E e, f \in evaluated :
        /\ e # f
        /\ e.l = f.l \/ e.l = f.r
        /\ make_regular(add(numbers[e.l], numbers[e.r])) # add(numbers[e.l], numbers[e.r])
    /\ numbers = parse_all(batch).vec

\* C17: on no line at all and on exactly one line part_2 returns an error;
\* no pair is evaluated.
C17_FewerThanTwoLines ==
    Len(InkedLines(batch)) <= 1 =>
        /\ maxpc # "panic"
        /\ evaluated = {}
        /\ maxpc = "returned" => answer.kind = "Err"

\* one line that parses, and the error of too few lines
C17_Witness ==
    /\ maxpc = "returned"
    /\ Len(numbers) = 1
    /\ rows[1].taken
    /\ answer = ErrAt(0)

\* ======================================================================
\* Properties of add
\* ======================================================================

\* C15: add(a, b) leaves Pair(a, b): a is the left child and b the right
\* child, both as they were, and nothing is exploded or split by add, also
\* where the sum is not in normal form.
C15_AddIsPair ==
    pc # "add" =>
        /\ IsPair(orig)
        /\ orig.left = lhs
        /\ orig.right = rhs
        /\ Leaves(orig) = FlatAdd(Leaves(lhs), Leaves(rhs))
        /\ (pc = "loop" /\ rewrite = "none") => tree = orig

\* a sum that add left with a pair at depth 4 and a leaf above 9
C15_Witness ==
    /\ pc = "loop"
    /\ rewrite = "none"
    /\ tree = Pair(lhs, rhs)
    /\ HasDeepPair(tree)
    /\ HasBigLeaf(tree)
    /\ IsPair(lhs)

\* C16: on a text without a line (empty, or whitespace and nothing else)
\* sum_lines takes no line and returns an error, no tree.
C16_NoLinesIsError ==
    (\A i \in DOMAIN input : Core(input[i]) = <<>>) =>
        /\ sumpc \in {"start", "returned"}
        /\ acc = NoValue
        /\ sumpc = "returned" => result.kind = "Err"

\* lines of whitespace and nothing else were answered with the error
C16_Witness ==
    /\ sumpc = "returned"
    /\ Len(input) >= 2
    /\ \A i \in DOMAIN input : Core(input[i]) = <<>>
    /\ \E i \in DOMAIN input : input[i] # <<>>
    /\ result = ErrAt(0)

\* the numbers of the lines of the text that do not parse
BadLines(text) ==
    {i \in DOMAIN trim_lines(text) : from_str(trim_lines(text)[i]).kind = "Err"}

\* C18: when a line of the input does not parse (a blank line in the middle
\* included), sum_lines ends by returning the error of that line, wherever
\* the line stands, and no result made of the other lines.
C18_ParseErrorFailsRun ==
    (sumpc \in {"returned", "panic"} /\ BadLines(input) # {}) =>
        /\ sumpc = "returned"
        /\ result = ErrAt(Least(BadLines(input)))

\* the part of C18 that part_2 keeps: every line is parsed before any pair
\* is evaluated, so the error of the first bad line is returned at once
C18_MaxReturnsParseError ==
    (maxpc # "start" /\ BadLines(batch) # {}) =>
        /\ maxpc = "returned"
        /\ answer = ErrAt(Least(BadLines(batch)))
        /\ evaluated = {}

\* ======================================================================
\* Properties of regularize
\* ======================================================================

\* C19: for the tree of every line that parses the reduction completes with
\* a result, and a second reduction of that result changes nothing.
C19_ReduceCompletesAndIsIdempotent ==
    (parsed # NoValue /\ parsed.kind = "Ok") =>
        /\ pc # "panic"
        /\ pc = "done" => make_regular(tree) = tree

\* the part of C19 that the code keeps: where the reduction completes, a
\* second reduction finds nothing to explode and nothing to split
C19_SecondReductionChangesNothing ==
    pc = "done" =>
        /\ make_regular(tree) = tree
        /\ ExplodableAt(Leaves(tree)) = {}
        /\ BigAt(Leaves(tree)) = {}

\* ======================================================================
\* Properties of parsing and writing
\* ======================================================================

\* how many brackets are open after the first i characters of s
OpenAt(s, i) ==
    Cardinality({k \in 1..i : s[k] = "["}) - Cardinality({k \in 1..i : s[k] = "]"})

\* s is the canonical text of a number in normal form: a Number of the
\* grammar, every leaf one digit, no more than four brackets open
CanonicalNormalText(s) ==
    /\ IsNumberText(s)
    /\ \A i \in 1..(Len(s) - 1) : ~(IsDigit(s[i]) /\ IsDigit(s[i + 1]))
    /\ \A i \in DOMAIN s : OpenAt(s, i) <= 4

\* C20: the canonical text of a number in normal form, a plain integer 0..9
\* included, parses, and to_string of the parsed tree is the text again.
C20_RoundTrip ==
    (parsed # NoValue /\ CanonicalNormalText(line)) =>
        /\ parsed.kind = "Ok"
        /\ shown # NoValue => shown = line

\* the part of C20 that the code keeps: the round trip of the bracketed
\* canonical texts
C20_PairTextsRoundTrip ==
    (parsed # NoValue /\ CanonicalNormalText(line) /\ line[1] = "[") =>
        /\ parsed.kind = "Ok"
        /\ shown # NoValue => shown = line

\* ======================================================================
\* Properties of the fatal state
\* ======================================================================

\* C21: on a line of the grammar no reduction meets a Pair at depth >= 4
\* that holds a Pair: try_explode never reaches its unreachable!() and
\* make_regular never panics.
C21_FatalStateUnreachable ==
    IsNumberText(Core(line)) =>
        /\ pc # "panic"
        /\ pc = "loop" => try_explode(tree, 0).sig # Unreachable

\* the first Pair at depth 4, in the order try_explode visits the tree, has
\* a child that is a Pair: below the depth-4 ancestor of the first leaf at
\* depth >= 5 lies a leaf at depth >= 6
FirstDeepPairHoldsPair(t) ==
    LET ls == Leaves(t)
        deep == {i \in DOMAIN ls : Len(ls[i].path) >= 5}
    IN  /\ deep # {}
        /\ LET at == SubSeq(ls[Least(deep)].path, 1, 4) IN
           \E i \in DOMAIN ls :
                Len(ls[i].path) >= 6 /\ SubSeq(ls[i].path, 1, 4) = at

\* C22: when the reducer finds a Pair at depth >= 4 that holds a Pair, the
\* operation halts in the fatal state: the tree is rewritten no further, no
\* text and no magnitude is returned and no Err either; the fatal state is
\* entered in no other case.
C22_FatalStateHalts ==
    /\ (pc = "loop" /\ FirstDeepPairHoldsPair(tree)) => LoopIteration(tree).next = "panic"
    /\ (parsed.kind = "Ok" /\ FirstDeepPairHoldsPair(tree)) =>
            /\ pc \in {"loop", "panic"}
            /\ shown = NoValue
            /\ mag = NoValue
    /\ pc = "panic" =>
            /\ FirstDeepPairHoldsPair(tree)
            /\ tree = before
            /\ rewrite = "none"
            /\ parsed.kind = "Ok"
            /\ shown = NoValue
            /\ mag = NoValue

\* a line that parsed ended in the fatal state, with nothing returned
C22_Witness ==
    /\ pc = "panic"
    /\ parsed.kind = "Ok"
    /\ tree = parsed.tree
    /\ FirstDeepPairHoldsPair(tree)
    /\ shown = NoValue

\* ======================================================================
\* Termination of make_regular
\* ======================================================================

\* C23: make_regular, once called, reaches a fixed point after finitely
\* many rewrites: the loop ends by its break.
C23_ReachesFixedPoint == (pc = "loop") ~> (pc = "done")

\* the part of C23 that the code keeps: the loop does not run forever, it
\* ends by its break or in the fatal state
C23_LoopEnds == (pc = "loop") ~> (pc \in {"done", "panic"})

\* ======================================================================
\* The ten lines of the example
\* ======================================================================

\* C24: on the ten lines of the example sum_lines returns the number whose
\* text is [[[[6,6],[7,6]],[[7,7],[7,0]]],[[[7,7],[7,7]],[[7,8],[9,9]]]],
\* part_1 returns its magnitude 4140, and part_2 returns 3993; neither call
\* panics on the way.
C24_TenLinesExample ==
    input = TenLinesInput =>
        /\ pc # "panic"
        /\ maxpc # "panic"
        /\ sumpc = "returned" => (result.kind = "Ok" /\ Display(result.tree) = TenLinesSumText)
        /\ mag # NoValue => mag.v = 4140
        /\ maxpc = "returned" => answer = OkValue(3993)

\* both tests have run to their last assertion on the ten lines
C24_Witness ==
    /\ input = TenLinesInput
    /\ sumpc = "returned"
    /\ result.kind = "Ok"
    /\ mag # NoValue
    /\ maxpc = "returned"
    /\ Cardinality(evaluated) = 90

\* ======================================================================
\* The carries of an explode, by the way they take through the tree
\* ======================================================================

\* the place of the Pair an explode replaces: the first Pair at depth 4
FirstDeepPairAt(ls) ==
    SubSeq(ls[Least({i \in DOMAIN ls : Len(ls[i].path) >= 5})].path, 1, 4)

\* the levels at which the way from the root down to place p turns to the
\* given side
TurnsTo(p, side) == {k \in DOMAIN p : p[k] = side}

Last(S) == CHOOSE k \in S : \A j \in S : j <= k

\* q lies under the place `top` and keeps to the given side below it
KeepsTo(q, top, side) ==
    /\ Len(q) >= Len(top)
    /\ SubSeq(q, 1, Len(top)) = top
    /\ \A k \in (Len(top) + 1)..Len(q) : q[k] = side

\* the leaf that takes the right carry of the Pair at place p: the leftmost
\* leaf of the right child of the first ancestor that p is entered from by
\* its left child; no leaf if there is no such ancestor
IsRightTarget(q, p) ==
    /\ TurnsTo(p, 0) # {}
    /\ KeepsTo(q, Append(SubSeq(p, 1, Last(TurnsTo(p, 0)) - 1), 1), 0)

\* the leaf that takes the left carry: the rightmost leaf of the left child
\* of the first ancestor that p is entered from by its right child
IsLeftTarget(q, p) ==
    /\ TurnsTo(p, 1) # {}
    /\ KeepsTo(q, Append(SubSeq(p, 1, Last(TurnsTo(p, 1)) - 1), 0), 1)

\* C25: in one explode step the right carry is added once, to the leftmost
\* leaf of the right child of the first ancestor entered from its left
\* child, and the left carry once, to the rightmost leaf of the left child
\* of the first ancestor entered from its right child; the exploded Pair is
\* a 0 and every other leaf keeps its place and value. What reaches the
\* root is Handled when both carries were delivered, and otherwise the one
\* carry that found no leaf, unchanged: no delivered carry goes further up.
C25_CarriesDeliveredOnce ==
    rewrite = "explode" =>
        LET ls == Leaves(before)
            now == Leaves(tree)
            p == FirstDeepPairAt(ls)
            l == (CHOOSE x \in {ls[i] : i \in DOMAIN ls} : x.path = Append(p, 0)).v
            r == (CHOOSE x \in {ls[i] : i \in DOMAIN ls} : x.path = Append(p, 1)).v
            sig == try_explode(before, 0).sig
        IN  /\ {now[i].path : i \in DOMAIN now} =
                    ({ls[i].path : i \in DOMAIN ls} \ {Append(p, 0), Append(p, 1)}) \cup {p}
            /\ \A i \in DOMAIN now :
                    IF now[i].path = p THEN now[i].v = 0
                    ELSE \E j \in DOMAIN ls :
                            /\ ls[j].path = now[i].path
                            /\ now[i].v = ls[j].v
                                    + (IF IsRightTarget(ls[j].path, p) THEN r ELSE 0)
                                    + (IF IsLeftTarget(ls[j].path, p) THEN l ELSE 0)
            /\ (TurnsTo(p, 0) # {} /\ TurnsTo(p, 1) # {}) => sig = Handled
            /\ TurnsTo(p, 1) = {} => sig = Shockwave("LeftThenRightMost", l)
            /\ TurnsTo(p, 0) = {} => sig = Shockwave("RightThenLeftMost", r)

\* an explode whose right carry went up two levels before it was delivered
\* one level below the root, where it stopped
C25_Witness ==
    /\ rewrite = "explode"
    /\ FirstDeepPairAt(Leaves(before)) = <<0, 0, 0, 1>>
    /\ try_explode(before, 0).sig = Handled
    /\ \E i \in DOMAIN Leaves(before) :
            /\ Leaves(before)[i].path = <<0, 0, 1>>
            /\ Leaves(tree)[i - 1].v = Leaves(before)[i].v + Leaves(before)[i - 1].v
            /\ Leaves(before)[i - 1].v > 0

\* ======================================================================
\* What one call of try_explode leaves alone
\* ======================================================================

\* the places of a flattened tree
Places(ls) == {ls[i].path : i \in DOMAIN ls}

\* the value of the leaf at place q
ValueAt(ls, q) == (CHOOSE x \in {ls[i] : i \in DOMAIN ls} : x.path = q).v

\* C26: one call of try_explode on the root replaces one Pair, the first at
\* depth 4, and no other: the tree has one leaf less, every other Pair at
\* depth 4 is still in its place, at most two leaves have another value than
\* before and they are the leaves next to the replaced Pair; all other
\* leaves keep place and value.
C26_OnePairPerCall ==
    rewrite = "explode" =>
        LET ls == Leaves(before)
            now == Leaves(tree)
            i == Least(ExplodableAt(ls))
            p == Parent(ls[i].path)
            kept == Places(ls) \ {ls[i].path, ls[i + 1].path}
            changed == {q \in kept : ValueAt(now, q) # ValueAt(ls, q)}
        IN  /\ Len(now) = Len(ls) - 1
            /\ Places(now) = kept \cup {p}
            /\ ValueAt(now, p) = 0
            /\ \A j \in ExplodableAt(ls) \ {i} :
                    {ls[j].path, ls[j + 1].path} \subseteq Places(now)
            /\ Cardinality(ExplodableAt(now)) = Cardinality(ExplodableAt(ls)) - 1
            /\ Cardinality(changed) <= 2
            /\ changed \subseteq {ls[k].path : k \in {i - 1, i + 2} \cap DOMAIN ls}

\* an explode of a tree with two Pairs at depth 4: the second is still there
\* after the call, with the carry of the first in its left leaf
C26_Witness ==
    /\ rewrite = "explode"
    /\ Cardinality(ExplodableAt(Leaves(before))) = 2
    /\ Cardinality(ExplodableAt(Leaves(tree))) = 1
    /\ \E j \in ExplodableAt(Leaves(before)) :
            /\ j = Least(ExplodableAt(Leaves(before))) + 2
            /\ Leaves(before)[j].path \in Places(Leaves(tree))
            /\ ValueAt(Leaves(tree), Leaves(before)[j].path) > Leaves(before)[j].v

\* ======================================================================
\* A sum that is in normal form already
\* ======================================================================

\* the sum of the lines [1,1] .. [k,k], each added to the sum before it
RECURSIVE TwinsFold(_)
TwinsFold(k) == IF k = 1 THEN Twin(1) ELSE Pair(TwinsFold(k - 1), Twin(k))

\* [[[[1,1],[2,2]],[3,3]],[4,4]]
FourLinesSumText ==
    <<"[", "[", "[", "[", "1", ",", "1", "]", ",", "[", "2", ",", "2", "]", "]", ",",
      "[", "3", ",", "3", "]", "]", ",", "[", "4", ",", "4", "]", "]">>

\* C27: make_regular leaves a tree in normal form as it is: where add(a, b)
\* has no Pair at depth >= 4 and no leaf above 9, the first iteration of the
\* loop is the break, no rewrite is made and the reduced sum is Pair(a, b).
\* So [1,1], [2,2], [3,3], [4,4], added one after the other, give
\* [[[[1,1],[2,2]],[3,3]],[4,4]].
C27_NormalFormUnchanged ==
    /\ (pc # "add" /\ NormalForm(orig)) =>
            /\ pc \in {"loop", "done"}
            /\ rewrite = "none"
            /\ tree = Pair(lhs, rhs)
            /\ pc = "loop" => LoopIteration(tree) = [next |-> "done", rewrite |-> "none", tree |-> tree]
    /\ \A k \in 2..4 :
            (pc = "done" /\ lhs = TwinsFold(k - 1) /\ rhs = Twin(k)) => tree = TwinsFold(k)
    /\ Display(TwinsFold(4)) = FourLinesSumText

\* the last of the three sums of the example is done: the tree is the Pair
\* of its operands, with Pairs at depth 3 and no rewrite made
C27_Witness ==
    /\ pc = "done"
    /\ lhs = TwinsFold(3)
    /\ rhs = Twin(4)
    /\ tree = Pair(lhs, rhs)
    /\ NormalForm(tree)
    /\ Display(tree) = FourLinesSumText
    /\ rewrite = "none"

\* ======================================================================
\* The reduction of the sum of two numbers in normal form
\* ======================================================================

\* every Pair at depth >= 4 holds two leaves: a leaf at depth >= 5 has a leaf
\* for its sibling
DeepPairsHoldLeaves(ls) ==
    \A i \in DOMAIN ls :
        Len(ls[i].path) >= 5 =>
            \E j \in {i - 1, i + 1} \cap DOMAIN ls :
                /\ Len(ls[j].path) = Len(ls[i].path)
                /\ Parent(ls[j].path) = Parent(ls[i].path)

\* C28: when a and b are in normal form, the tree that make_regular works on
\* after add(a, b) holds no Pair below depth 4 in any state of the loop, so
\* every Pair at depth >= 4 holds two leaves, try_explode never comes to its
\* unreachable!() and the loop never ends in the fatal state.
C28_NoPairBelowDepthFour ==
    (pc # "add" /\ NormalForm(lhs) /\ NormalForm(rhs)) =>
        LET ls == Leaves(tree) IN
        /\ \A i \in DOMAIN ls : Len(ls[i].path) <= 5
        /\ DeepPairsHoldLeaves(ls)
        /\ pc # "panic"
        /\ pc = "loop" => try_explode(tree, 0).sig # Unreachable

\* in the middle of the reduction of such a sum: after an explode that put
\* a value above 9 into a leaf of a Pair at depth 4
C28_Witness ==
    /\ pc = "loop"
    /\ NormalForm(lhs)
    /\ NormalForm(rhs)
    /\ rewrite = "explode"
    /\ \E i \in DOMAIN Leaves(tree) :
            Len(Leaves(tree)[i].path) = 5 /\ Leaves(tree)[i].v > 9

\* ======================================================================
\* The sum of the leaves
\* ======================================================================
LeafSum(ls) == SumOver([k \in DOMAIN ls |-> ls[k].v], Len(ls))

\* the values of the leftmost explodable Pair that have no leaf to go to: the
\* left one when no leaf lies before the Pair, the right one when none lies
\* after it
LostCarries(ls) ==
    LET i == Least(ExplodableAt(ls)) IN
    (IF i = 1 THEN ls[i].v ELSE 0) + (IF i + 1 = Len(ls) THEN ls[i + 1].v ELSE 0)

\* C29: a split leaves the sum of the leaves as it was; an explode lowers it
\* by the carried values that found no leaf, and by nothing when both
\* neighbours exist; no leaf is below 0 in any state of the reduction of a
\* tree that had none.
C29_LeafSumKept ==
    LET ls == Leaves(before)
        now == Leaves(tree)
    IN  /\ rewrite = "split" => LeafSum(now) = LeafSum(ls)
        /\ rewrite = "explode" =>
                /\ LeafSum(now) = LeafSum(ls) - LostCarries(ls)
                /\ (Least(ExplodableAt(ls)) > 1 /\ Least(ExplodableAt(ls)) + 1 < Len(ls)) =>
                        LeafSum(now) = LeafSum(ls)
        /\ \A i \in DOMAIN now : now[i].v >= 0
        /\ LeafSum(now) <= LeafSum(Leaves(orig))

\* an explode in the middle of the tree, both values delivered and the sum
\* of the leaves as before
C29_Witness ==
    /\ rewrite = "explode"
    /\ Least(ExplodableAt(Leaves(before))) > 1
    /\ Least(ExplodableAt(Leaves(before))) + 1 < Len(Leaves(before))
    /\ LeafSum(Leaves(tree)) = LeafSum(Leaves(before))
    /\ LeafSum(Leaves(tree)) > 0
    /\ tree # before

\* a split of an odd value: one leaf more, the sum of the leaves as before
C29_WitnessSplit ==
    /\ rewrite = "split"
    /\ Len(Leaves(tree)) = Len(Leaves(before)) + 1
    /\ LeafSum(Leaves(tree)) = LeafSum(Leaves(before))
    /\ \E i \in DOMAIN Leaves(before) : Leaves(before)[i].v = 11

\* ======================================================================
\* What try_explode returns to make_regular
\* ======================================================================

\* the subtree of t at place p
RECURSIVE SubtreeAt(_, _)
SubtreeAt(t, p) ==
    IF p = <<>> THEN t
    ELSE SubtreeAt(IF Head(p) = 0 THEN t.left ELSE t.right, Tail(p))

\* C30: try_explode(0) on the root never returns ChildExploded. The Pair at
\* depth 4 returns it to its parent at depth 3, and the parent, which has
\* added one of the two values to its other child, returns a Shockwave with
\* the one value left; so make_regular never comes to its unreachable!() for
\* an exploding root, and the fatal state is only that of try_explode.
C30_RootNeverChildExploded ==
    /\ pc = "loop" => try_explode(tree, 0).sig.kind # "ChildExploded"
    /\ pc = "panic" => try_explode(tree, 0).sig = Unreachable
    /\ rewrite = "explode" =>
            LET ls == Leaves(before)
                p == FirstDeepPairAt(ls)
                here == try_explode(SubtreeAt(before, p), 4)
                above == try_explode(SubtreeAt(before, Parent(p)), 3)
                
            IN  /\ here.sig = ChildExploded(ValueAt(ls, Append(p, 0)), ValueAt(ls, Append(p, 1)))
                /\ above.sig = (IF p[4] = 0
                                THEN Shockwave("LeftThenRightMost", here.sig.l)
                                ELSE Shockwave("RightThenLeftMost", here.sig.r))
                /\ LeafSum(Leaves(above.tree)) =
                        LeafSum(Leaves(SubtreeAt(before, Parent(p)))) - above.sig.v
                /\ try_explode(before, 0).sig.kind \in {"Shockwave", "Handled"}

\* an explode of a Pair that is the right child of its parent: the parent
\* returned a Shockwave with the right value, the root Handled
C30_Witness ==
    /\ rewrite = "explode"
    /\ FirstDeepPairAt(Leaves(before))[4] = 1
    /\ try_explode(SubtreeAt(before, FirstDeepPairAt(Leaves(before))), 4).sig.kind = "ChildExploded"
    /\ try_explode(SubtreeAt(before, Parent(FirstDeepPairAt(Leaves(before)))), 3).sig.kind = "Shockwave"
    /\ try_explode(before, 0).sig = Handled

====
